---- MODULE Spec2Model ----
(***************************************************************************)
(* auto_riego: the Express/Socket.IO server of src/src/server.js, the      *)
(* valve display of the dashboard page of src/public/app.js, the login     *)
(* page of src/public/login.js, and the page guard and the section detail  *)
(* view of main-ui.js and app.js as kept in src/unnamed/part_000.          *)
(*                                                                         *)
(* The server keeps no state of its own: the zone state lives in the       *)
(* Firebase Realtime Database under /vivero/secciones/<section>.  Every    *)
(* database call (update, once) is asynchronous: the handler issues it,    *)
(* and the code after the await / inside the .then runs when the answer    *)
(* arrives.  The database client sends the calls of the process over one   *)
(* connection, so they are served in the order they were issued; the       *)
(* model keeps them in the FIFO `queue`.  A step of the model is either    *)
(* the synchronous part of a request handler (up to its first database     *)
(* call) or the service of the oldest pending call together with the       *)
(* synchronous continuation that its answer starts.                        *)
(***************************************************************************)
EXTENDS Integers, Sequences, FiniteSets, TLC

VARIABLES
    API_KEY,   \* process.env.API_KEY, fixed when the process starts
    db,        \* /vivero/secciones: section name -> stored object
    queue,     \* database calls issued and not yet served, oldest first
    events,    \* what io.emit has sent, in order
    reqs,      \* one record per HTTP request received, in order of receipt
    dbFaults,  \* how many database calls may still be made to fail
    shown,     \* the dashboard (public/app.js): the text of <section>-val
    seen,      \* how many of the emitted events the dashboard has handled
    env,       \* process.env: ADMIN_EMAIL, ADMIN_PASSWORD_HASH,
               \* ADMIN_PLAIN_PASSWORD, JWT_SECRET
    loginHits, \* loginLimiter: requests counted in the current window
    loginReply,    \* the last request to /api/auth/login and its response
    btnDisabled,   \* login.js: btn.disabled
    fetches,       \* login.js: the bodies of the fetches awaiting an answer
    location,      \* the last segment of window.location.pathname
    localStorage,  \* key -> stored string, for the keys that are set
    loaded,        \* the scripts of the document at `location` have run
    redirects,     \* how many times a script assigned window.location.href
    uiCharts,      \* main-ui.js initSectionView: lengths of the chart arrays
    appCharts      \* app.js section page: lengths of the chart arrays

vars == <<API_KEY, db, queue, events, reqs, dbFaults, shown, seen,
          env, loginHits, loginReply,
          btnDisabled, fetches, location, localStorage, loaded, redirects,
          uiCharts, appCharts>>

\* the state of the dashboard page, which no handler of the server touches
viewer == <<shown, seen>>

\* the state of the login endpoint, which no other handler touches
auth == <<env, loginHits, loginReply>>

\* the browser's window and storage
window == <<location, localStorage, loaded, redirects>>

\* the state of the login page and of the section detail view
pages == <<btnDisabled, fetches, window, uiCharts, appCharts>>

----------------------------------------------------------------------------
(* JavaScript values *)

\* undefined: a header, query parameter or environment variable that is not set
Undefined == "undefined"

\* {} : an object without own fields; also what a database node that was never
\* written reads as (snap.val() || {})
EmptyObject == [f \in {} |-> Undefined]

\* o.f is defined
Has(o, f) == f \in DOMAIN o

\* o.f, undefined when the field is missing
Get(o, f) == IF Has(o, f) THEN o[f] ELSE Undefined

\* the timestamp new Date().toISOString() gives: the value is abstracted to
\* its origin, the server's clock
ServerTime == "server-time"

----------------------------------------------------------------------------
(* Configuration *)

SECTIONS ==
    [ sombra     |-> [soilThreshold |-> 400, tempHigh |-> 32, tempLow |-> 10],
      semisombra |-> [soilThreshold |-> 350, tempHigh |-> 34, tempLow |-> 10],
      sol        |-> [soilThreshold |-> 300, tempHigh |-> 36, tempLow |-> 10] ]

Zones == DOMAIN SECTIONS

\* SECTIONS is a plain object literal: SECTIONS[name] also finds the members
\* it inherits from Object.prototype, which are functions (truthy, and
\* without soilThreshold / tempHigh / tempLow)
ObjectPrototypeKeys == {"constructor"}

\* the truth value of SECTIONS[section]
SectionLookupTruthy(section) == section \in Zones \cup ObjectPrototypeKeys

\* const cfg = SECTIONS[section], once it is known to be truthy
SectionLookup(section) ==
    IF section \in Zones THEN SECTIONS[section] ELSE EmptyObject

\* the margin added to soilThreshold before the valve is closed again
HysteresisMargin == 50

\* apiKey === process.env.API_KEY alone, without the two truthiness tests
checkApiKey_EqualityOnly(apiKey) == apiKey = API_KEY

\* checkApiKey: apiKey && process.env.API_KEY && apiKey === process.env.API_KEY
checkApiKey(apiKey) ==
    /\ apiKey # Undefined
    /\ API_KEY # Undefined
    /\ apiKey = API_KEY

\* jwt.verify(token, JWT_SECRET) succeeds for the tokens signed with the secret
SignedTokens == {"jwt-admin"}

\* the test parts[0] !== 'Bearer' left out
authMiddleware_AnyScheme(parts) ==
    /\ parts # <<>>
    /\ Len(parts) = 2
    /\ parts[2] \in SignedTokens

\* authMiddleware: the Authorization header, given as auth.split(' ')
\* (the empty sequence for a missing header); TRUE when next() is called
authMiddleware(parts) ==
    /\ parts # <<>>
    /\ Len(parts) = 2
    /\ parts[1] = "Bearer"
    /\ parts[2] \in SignedTokens

\* the values of the environment of a deployment that has an administrator
AdminEmail == "admin@vivero"
AdminPassword == "riego-2024"
AdminHash == "$2b$10$hash-of-riego-2024"
DevPassword == "dev"
JwtSecret == "jwt-secret"

\* !v for an environment variable or a field of a JSON body that holds a
\* string or is missing
Falsy(v) == v \in {Undefined, ""}

\* a number sent where a string is expected
NumberValue == "12345 (a number)"

\* the hashes bcrypt.hash has produced, each with the password it was made
\* from
BcryptPairs == { <<AdminPassword, AdminHash>> }

\* bcrypt.compare(password, hash), for a string password
bcryptCompare(password, hash) == <<password, hash>> \in BcryptPairs

\* jwt.sign(payload, JWT_SECRET): a token that jwt.verify accepts
jwtSign == CHOOSE t \in SignedTokens : TRUE

\* loginLimiter: max
LoginLimit == 6

----------------------------------------------------------------------------
(* The database *)

\* every section name a request of the model can carry
Paths == Zones \cup ObjectPrototypeKeys \cup {"bogus"}

\* ref.set(fields) in place of ref.update(fields): the stored object is replaced
Update_Overwrite(stored, fields) == fields

\* ref.update(fields): the fields given overwrite, every other stored field
\* is kept
Update(stored, fields) ==
    [f \in DOMAIN stored \cup DOMAIN fields |->
        IF f \in DOMAIN fields THEN fields[f] ELSE stored[f]]

\* the outcomes a database call can have: success, or failure while the
\* budget of injected failures lasts
Outcomes == IF dbFaults > 0 THEN {TRUE, FALSE} ELSE {TRUE}

----------------------------------------------------------------------------
(* The irrigation logic *)

\* manual_override: false added to the automatic "on" write
AutoOnFields_ClearsOverride ==
    ("valvula" :> "on") @@ ("ultima_actualizacion" :> ServerTime)
        @@ ("reason" :> "auto_soil_low") @@ ("manual_override" :> FALSE)

\* the three partial objects the server writes over a section
AutoOnFields ==
    ("valvula" :> "on") @@ ("ultima_actualizacion" :> ServerTime)
        @@ ("reason" :> "auto_soil_low")

AutoOffFields ==
    ("valvula" :> "off") @@ ("ultima_actualizacion" :> ServerTime)
        @@ ("reason" :> "soil_ok")

\* manual_override: true left out of the manual write
ManualFields_NoOverride(action) ==
    ("valvula" :> action) @@ ("ultima_actualizacion" :> ServerTime)

ManualFields(action) ==
    ("valvula" :> action) @@ ("ultima_actualizacion" :> ServerTime)
        @@ ("manual_override" :> TRUE)

\* soil < cfg.soilThreshold in place of <=
SoilLow_Strict(cfg, payload) ==
    /\ Has(payload, "humedad_suelo")
    /\ Has(cfg, "soilThreshold")
    /\ payload["humedad_suelo"] < cfg["soilThreshold"]

\* (soil || 0) <= cfg.soilThreshold: a missing reading taken as 0
SoilLow_MissingIsZero(cfg, payload) ==
    /\ Has(cfg, "soilThreshold")
    /\ (IF Has(payload, "humedad_suelo") THEN payload["humedad_suelo"] ELSE 0)
           <= cfg["soilThreshold"]

\* soil <= cfg.soilThreshold; a comparison with undefined is false
SoilLow(cfg, payload) ==
    /\ Has(payload, "humedad_suelo")
    /\ Has(cfg, "soilThreshold")
    /\ payload["humedad_suelo"] <= cfg["soilThreshold"]

\* soil > cfg.soilThreshold, without the margin
SoilAboveMargin_NoMargin(cfg, payload) ==
    /\ Has(payload, "humedad_suelo")
    /\ Has(cfg, "soilThreshold")
    /\ payload["humedad_suelo"] > cfg["soilThreshold"]

\* soil >= cfg.soilThreshold + 50 in place of >
SoilAboveMargin_Inclusive(cfg, payload) ==
    /\ Has(payload, "humedad_suelo")
    /\ Has(cfg, "soilThreshold")
    /\ payload["humedad_suelo"] >= cfg["soilThreshold"] + HysteresisMargin

\* soil > cfg.soilThreshold + 50
SoilAboveMargin(cfg, payload) ==
    /\ Has(payload, "humedad_suelo")
    /\ Has(cfg, "soilThreshold")
    /\ payload["humedad_suelo"] > cfg["soilThreshold"] + HysteresisMargin

\* data.manual_override === true
ManualOverride(data) ==
    Has(data, "manual_override") /\ data["manual_override"] = TRUE

\* data.manual_override === true in place of !== true
ShouldClose_OverrideInverted(cfg, payload, data) ==
    /\ Get(data, "valvula") = "on"
    /\ ManualOverride(data)
    /\ SoilAboveMargin(cfg, payload)

\* the test on data.manual_override left out
ShouldClose_IgnoresOverride(cfg, payload, data) ==
    /\ Get(data, "valvula") = "on"
    /\ SoilAboveMargin(cfg, payload)

\* the valve kept open while the temperature is high
ShouldClose_UnlessHot(cfg, payload, data) ==
    /\ Get(data, "valvula") = "on"
    /\ ~ManualOverride(data)
    /\ SoilAboveMargin(cfg, payload)
    /\ ~(Has(payload, "temp") /\ Has(cfg, "tempHigh")
          /\ payload["temp"] >= cfg["tempHigh"])

\* the test made on the answer of the deferred read
ShouldClose(cfg, payload, data) ==
    /\ Get(data, "valvula") = "on"
    /\ ~ManualOverride(data)
    /\ SoilAboveMargin(cfg, payload)

\* temp > cfg.tempHigh in place of >=
TempHigh_Strict(cfg, payload) ==
    /\ Has(payload, "temp")
    /\ Has(cfg, "tempHigh")
    /\ payload["temp"] > cfg["tempHigh"]

\* temp >= cfg.tempHigh; a comparison with undefined is false
TempHigh(cfg, payload) ==
    /\ Has(payload, "temp")
    /\ Has(cfg, "tempHigh")
    /\ payload["temp"] >= cfg["tempHigh"]

TempLow(cfg, payload) ==
    /\ Has(payload, "temp")
    /\ Has(cfg, "tempLow")
    /\ payload["temp"] <= cfg["tempLow"]

MsgSoilLow  == "Humedad de suelo baja -> abriendo valvula automaticamente."
MsgSoilOk   == "Humedad de suelo adecuada."
MsgTempHigh == "Temperatura alta: revisar ventilacion/sombra."
MsgTempLow  == "Temperatura baja: proteger plantas si es necesario."

\* the reference built without the section: every call addresses one node
Call_OneNode(req, cont, path, fields) ==
    [req |-> req, cont |-> cont, path |-> "sol", fields |-> fields]

\* a database call: the request it belongs to, the code its answer resumes,
\* the section it addresses and, for an update, the fields it writes
Call(req, cont, path, fields) ==
    [req |-> req, cont |-> cont, path |-> path, fields |-> fields]

\* evaluateAndMaybeTriggerValve(section, payload), its synchronous part: the
\* database call it issues without awaiting it, and the suggestions it returns
evaluateAndMaybeTriggerValve(section, payload, req) ==
    LET cfg == SectionLookup(section)
        low == SoilLow(cfg, payload)
    IN  IF ~SectionLookupTruthy(section)
        THEN [calls |-> <<>>, suggestions |-> <<>>, decision |-> "none"]
        ELSE [ calls |->
                 IF low
                 THEN <<Call(req, "autoOn", section, AutoOnFields)>>
                 ELSE <<Call(req, "autoRead", section, EmptyObject)>>,
               suggestions |->
                 (IF low THEN <<MsgSoilLow>> ELSE <<MsgSoilOk>>)
                 \o (IF TempHigh(cfg, payload) THEN <<MsgTempHigh>> ELSE <<>>)
                 \o (IF TempLow(cfg, payload) THEN <<MsgTempLow>> ELSE <<>>),
               decision |-> IF low THEN "on" ELSE "read" ]

----------------------------------------------------------------------------
(* Requests *)

\* The record the model keeps of a request.  status is the HTTP status sent
\* (0 while no response has been sent), response the JSON body sent by
\* GET /api/valve/:section; cred is the credential the request
\* carried (API key or Authorization header); body is the request body once
\* the handler has read it.  The other fields are history kept for stating the
\* properties: pre is the stored object of the section when the request
\* arrived, quiet tells that no database call on that section was pending
\* then, decision is the valve action taken for the request so far.
Req(kind, cred, status, body, pre, quiet, decision) ==
    [kind |-> kind, cred |-> cred, status |-> status, body |-> body,
     pre |-> pre,
     quiet |-> quiet, decision |-> decision, suggestions |-> <<>>,
     response |-> EmptyObject]

Rejected(kind, cred, status, body) ==
    Req(kind, cred, status, body, EmptyObject, FALSE, "rejected")

PendingOn(path) == \E k \in 1..Len(queue) : queue[k].path = path

\* the timestamp set only when the payload brings none
PostData_TrustsDevice(apiKey, body) ==
    /\ UNCHANGED <<viewer, auth, pages, API_KEY, db, events, dbFaults>>
    /\ IF ~checkApiKey(apiKey)
       THEN /\ reqs' = Append(reqs, Rejected("data", apiKey, 401, EmptyObject))
            /\ UNCHANGED queue
       ELSE IF ~Has(body, "section") \/ ~SectionLookupTruthy(body["section"])
       THEN /\ reqs' = Append(reqs, Rejected("data", apiKey, 400, body))
            /\ UNCHANGED queue
       ELSE LET section == body["section"]
                payload == Update("ultima_actualizacion" :> ServerTime, body)
            IN  /\ queue' = Append(queue,
                       Call(Len(reqs) + 1, "data", section, payload))
                /\ reqs' = Append(reqs,
                       Req("data", apiKey, 0, body, db[section],
                           ~PendingOn(section), "pending"))

\* POST /api/data
PostData(apiKey, body) ==
    /\ UNCHANGED <<viewer, auth, pages, API_KEY, db, events, dbFaults>>
    /\ IF ~checkApiKey(apiKey)
       THEN /\ reqs' = Append(reqs, Rejected("data", apiKey, 401, EmptyObject))
            /\ UNCHANGED queue
       ELSE IF ~Has(body, "section") \/ ~SectionLookupTruthy(body["section"])
       THEN /\ reqs' = Append(reqs, Rejected("data", apiKey, 400, body))
            /\ UNCHANGED queue
       ELSE LET section == body["section"]
                payload == Update(body, "ultima_actualizacion" :> ServerTime)
            IN  /\ queue' = Append(queue,
                       Call(Len(reqs) + 1, "data", section, payload))
                /\ reqs' = Append(reqs,
                       Req("data", apiKey, 0, body, db[section],
                           ~PendingOn(section), "pending"))

\* io.emit('control-update') placed before the await of the update
ControlHandler_EmitsEarly(kind, cred, authorized, body) ==
    /\ UNCHANGED <<viewer, auth, pages, API_KEY, db, dbFaults>>
    /\ IF ~authorized
       THEN /\ reqs' = Append(reqs, Rejected(kind, cred, 401, EmptyObject))
            /\ UNCHANGED <<queue, events>>
       ELSE IF ~Has(body, "section") \/ Get(body, "action") \notin {"on", "off"}
       THEN /\ reqs' = Append(reqs, Rejected(kind, cred, 400, body))
            /\ UNCHANGED <<queue, events>>
       ELSE LET section == body["section"]
            IN  /\ queue' = Append(queue,
                       Call(Len(reqs) + 1, "control", section,
                            ManualFields(body["action"])))
                /\ events' = Append(events,
                       [topic |-> "control-update", req |-> Len(reqs) + 1,
                        section |-> section,
                        data |-> "action" :> body["action"]])
                /\ reqs' = Append(reqs,
                       Req(kind, cred, 0, body, db[section],
                           ~PendingOn(section), "manual"))

\* the body of POST /api/control and of POST /api/ui/control, which are the
\* same once the caller is let in
ControlHandler(kind, cred, authorized, body) ==
    /\ UNCHANGED <<viewer, auth, pages, API_KEY, db, events, dbFaults>>
    /\ IF ~authorized
       THEN /\ reqs' = Append(reqs, Rejected(kind, cred, 401, EmptyObject))
            /\ UNCHANGED queue
       ELSE IF ~Has(body, "section") \/ Get(body, "action") \notin {"on", "off"}
       THEN /\ reqs' = Append(reqs, Rejected(kind, cred, 400, body))
            /\ UNCHANGED queue
       ELSE LET section == body["section"]
            IN  /\ queue' = Append(queue,
                       Call(Len(reqs) + 1, "control", section,
                            ManualFields(body["action"])))
                /\ reqs' = Append(reqs,
                       Req(kind, cred, 0, body, db[section],
                           ~PendingOn(section), "manual"))

\* POST /api/control
PostControl(apiKey, body) ==
    ControlHandler("control", apiKey, checkApiKey(apiKey), body)

\* the update of POST /api/ui/control written without manual_override
PostUiControl_NoOverride(authParts, body) ==
    /\ UNCHANGED <<viewer, auth, pages, API_KEY, db, events, dbFaults>>
    /\ IF ~authMiddleware(authParts)
       THEN /\ reqs' = Append(reqs,
                   Rejected("ui-control", authParts, 401, EmptyObject))
            /\ UNCHANGED queue
       ELSE IF ~Has(body, "section") \/ Get(body, "action") \notin {"on", "off"}
       THEN /\ reqs' = Append(reqs, Rejected("ui-control", authParts, 400, body))
            /\ UNCHANGED queue
       ELSE LET section == body["section"]
            IN  /\ queue' = Append(queue,
                       Call(Len(reqs) + 1, "control", section,
                            ManualFields_NoOverride(body["action"])))
                /\ reqs' = Append(reqs,
                       Req("ui-control", authParts, 0, body, db[section],
                           ~PendingOn(section), "manual"))

\* POST /api/ui/control
PostUiControl(authParts, body) ==
    ControlHandler("ui-control", authParts, authMiddleware(authParts), body)

----------------------------------------------------------------------------
(* Database answers and the code they resume *)

Emit(topic, req, section, data) ==
    [topic |-> topic, req |-> req, section |-> section, data |-> data]

\* .catch(console.error) on the awaited update in place of the try/catch: a
\* failed merge is logged and the handler goes on
DataUpdateDone_SwallowsFailure ==
    /\ queue # <<>>
    /\ Head(queue).cont = "data"
    /\ \E ok \in Outcomes :
        LET c  == Head(queue)
            ev == evaluateAndMaybeTriggerValve(c.path, c.fields, c.req)
        IN  /\ db' = IF ok THEN [db EXCEPT ![c.path] = Update(@, c.fields)]
                     ELSE db
            /\ queue' = Tail(queue) \o ev.calls
            /\ events' = Append(events,
                   Emit("sensor-update", c.req, c.path, c.fields))
            /\ reqs' = [reqs EXCEPT ![c.req].status = 200,
                                    ![c.req].decision = ev.decision,
                                    ![c.req].suggestions = ev.suggestions]
            /\ dbFaults' = IF ok THEN dbFaults ELSE dbFaults - 1
            /\ UNCHANGED <<viewer, auth, pages, API_KEY>>

\* await db.ref(refPath).update(payload) of POST /api/data, then the rest of
\* the handler; on failure the catch block
DataUpdateDone ==
    /\ queue # <<>>
    /\ Head(queue).cont = "data"
    /\ \E ok \in Outcomes :
        LET c  == Head(queue)
            ev == evaluateAndMaybeTriggerValve(c.path, c.fields, c.req)
        IN  IF ok
            THEN /\ db' = [db EXCEPT ![c.path] = Update(@, c.fields)]
                 /\ queue' = Tail(queue) \o ev.calls
                 /\ events' = Append(events,
                        Emit("sensor-update", c.req, c.path, c.fields))
                 /\ reqs' = [reqs EXCEPT ![c.req].status = 200,
                                         ![c.req].decision = ev.decision,
                                         ![c.req].suggestions = ev.suggestions]
                 /\ UNCHANGED <<viewer, auth, pages, API_KEY, dbFaults>>
            ELSE /\ queue' = Tail(queue)
                 /\ reqs' = [reqs EXCEPT ![c.req].status = 500,
                                         ![c.req].decision = "none"]
                 /\ dbFaults' = dbFaults - 1
                 /\ UNCHANGED <<viewer, auth, pages, API_KEY, db, events>>

\* the update of the soil-low branch, not awaited: .catch(console.error)
AutoOnDone ==
    /\ queue # <<>>
    /\ Head(queue).cont = "autoOn"
    /\ \E ok \in Outcomes :
        LET c == Head(queue)
        IN  /\ queue' = Tail(queue)
            /\ db' = IF ok THEN [db EXCEPT ![c.path] = Update(@, c.fields)]
                     ELSE db
            /\ dbFaults' = IF ok THEN dbFaults ELSE dbFaults - 1
            /\ UNCHANGED <<viewer, auth, pages, API_KEY, events, reqs>>

\* once('value').then(snap => ...): the deferred read and the test on what
\* it read
AutoReadDone ==
    /\ queue # <<>>
    /\ Head(queue).cont = "autoRead"
    /\ \E ok \in Outcomes :
        LET c       == Head(queue)
            data    == db[c.path]
            payload == Update(reqs[c.req].body,
                              "ultima_actualizacion" :> ServerTime)
            close   == ok /\ ShouldClose(SectionLookup(c.path), payload, data)
        IN  /\ queue' = Tail(queue) \o
                  (IF close
                   THEN <<Call(c.req, "autoOff", c.path, AutoOffFields)>>
                   ELSE <<>>)
            /\ reqs' = [reqs EXCEPT ![c.req].decision =
                            IF close THEN "off" ELSE "none"]
            /\ dbFaults' = IF ok THEN dbFaults ELSE dbFaults - 1
            /\ UNCHANGED <<viewer, auth, pages, API_KEY, db, events>>

\* the failure of the closing update answered to the caller as an error
AutoOffDone_FailureReported ==
    /\ queue # <<>>
    /\ Head(queue).cont = "autoOff"
    /\ \E ok \in Outcomes :
        LET c == Head(queue)
        IN  /\ queue' = Tail(queue)
            /\ db' = IF ok THEN [db EXCEPT ![c.path] = Update(@, c.fields)]
                     ELSE db
            /\ dbFaults' = IF ok THEN dbFaults ELSE dbFaults - 1
            /\ reqs' = IF ok THEN reqs
                       ELSE [reqs EXCEPT ![c.req].status = 500]
            /\ UNCHANGED <<viewer, auth, pages, API_KEY, events>>

\* the update that closes the valve, not awaited: .catch(console.error)
AutoOffDone ==
    /\ queue # <<>>
    /\ Head(queue).cont = "autoOff"
    /\ \E ok \in Outcomes :
        LET c == Head(queue)
        IN  /\ queue' = Tail(queue)
            /\ db' = IF ok THEN [db EXCEPT ![c.path] = Update(@, c.fields)]
                     ELSE db
            /\ dbFaults' = IF ok THEN dbFaults ELSE dbFaults - 1
            /\ UNCHANGED <<viewer, auth, pages, API_KEY, events, reqs>>

\* io.emit('control-update') placed in a finally: sent also when the update
\* failed
ControlUpdateDone_EmitsOnFailure ==
    /\ queue # <<>>
    /\ Head(queue).cont = "control"
    /\ \E ok \in Outcomes :
        LET c == Head(queue)
        IN  /\ db' = IF ok THEN [db EXCEPT ![c.path] = Update(@, c.fields)]
                     ELSE db
            /\ queue' = Tail(queue)
            /\ events' = Append(events,
                   Emit("control-update", c.req, c.path,
                        "action" :> c.fields["valvula"]))
            /\ reqs' = [reqs EXCEPT ![c.req].status =
                                        IF ok THEN 200 ELSE 500]
            /\ dbFaults' = IF ok THEN dbFaults ELSE dbFaults - 1
            /\ UNCHANGED <<viewer, auth, pages, API_KEY>>

\* await db.ref(refPath).update({valvula, ..., manual_override: true}) of the
\* two control endpoints, then io.emit and the response
ControlUpdateDone ==
    /\ queue # <<>>
    /\ Head(queue).cont = "control"
    /\ \E ok \in Outcomes :
        LET c == Head(queue)
        IN  IF ok
            THEN /\ db' = [db EXCEPT ![c.path] = Update(@, c.fields)]
                 /\ queue' = Tail(queue)
                 /\ events' = Append(events,
                        Emit("control-update", c.req, c.path,
                             "action" :> c.fields["valvula"]))
                 /\ reqs' = [reqs EXCEPT ![c.req].status = 200]
                 /\ UNCHANGED <<viewer, auth, pages, API_KEY, dbFaults>>
            ELSE /\ queue' = Tail(queue)
                 /\ reqs' = [reqs EXCEPT ![c.req].status = 500]
                 /\ dbFaults' = dbFaults - 1
                 /\ UNCHANGED <<viewer, auth, pages, API_KEY, db, events>>

Answer ==
    \/ DataUpdateDone
    \/ AutoOnDone
    \/ AutoReadDone
    \/ AutoOffDone
    \/ ControlUpdateDone

----------------------------------------------------------------------------
(* The requests the model sends *)

\* how many requests a behaviour of Spec receives
MaxReq == 2

\* the x-api-key header / api_key parameter of a request
ValidKey == "k-secret"
ApiKeys == {ValidKey, "k-wrong", Undefined}

\* the Authorization header of a request, split at the blank
ValidAuth == <<"Bearer", "jwt-admin">>
AuthHeaders == {ValidAuth, <<"Bearer", "jwt-forged">>, <<"Basic", "jwt-admin">>,
                <<"jwt-admin">>, <<>>}

\* soil readings, as distances from the soilThreshold of the section: at the
\* threshold, at the upper end of the hysteresis band, just above the band
SoilOffsets == {0, 50, 51}

\* a reading as the Pico sends it
SensorBody(section, soil) ==
    ("section" :> section) @@ ("humedad_suelo" :> soil) @@ ("temp" :> 20)

\* control fields a device may put into its payload
DeviceControlFields ==
    ("valvula" :> "abierta") @@ ("manual_override" :> FALSE)

SensorBodies ==
    { SensorBody(z, SECTIONS[z].soilThreshold + d) : z \in Zones, d \in SoilOffsets }

DataBodies ==
    SensorBodies
    \cup { b @@ DeviceControlFields : b \in SensorBodies }
    \cup { SensorBody("bogus", 300), SensorBody("constructor", 300),
           ("humedad_suelo" :> 300) @@ ("temp" :> 20) }

ControlBodies ==
    { ("section" :> s) @@ ("action" :> a) : s \in Zones \cup {"bogus"},
                                            a \in {"on", "off"} }
    \cup { ("section" :> "sol") @@ ("action" :> "toggle"),
           ("section" :> "sol"),
           ("action" :> "on") }

\* the dashboard after fetchInitial on a store without data: /firebase-proxy
\* answers null for every section and the page shows the valvula of
\* /api/valve/<section>, which is 'off'
PageLoaded ==
    /\ shown = [z \in Zones |-> "off"]
    /\ seen = 0

\* the administrator is signed in and looks at the dashboard: the login
\* endpoint is configured and idle, the token is stored
ConfiguredEnv ==
    [ ADMIN_EMAIL |-> AdminEmail, ADMIN_PASSWORD_HASH |-> AdminHash,
      ADMIN_PLAIN_PASSWORD |-> Undefined, JWT_SECRET |-> JwtSecret ]

NoReply == [body |-> EmptyObject, status |-> 0, response |-> EmptyObject]

\* the charts of the section detail view as created, with empty arrays.
\* An array is kept as its length: labels and points are only pushed at the
\* end and shifted from the front.
NoCharts ==
    [ soilLabels |-> 0, soilData |-> 0,
      tempLabels |-> 0, tempData |-> 0, humData |-> 0 ]

\* the same for the section page of app.js, which creates a chart only if
\* its canvas exists
NoAppCharts(soilCanvas, tempCanvas) ==
    [ soilChart |-> soilCanvas, tempChart |-> tempCanvas,
      soilLabels |-> 0, soilData |-> 0,
      tempLabels |-> 0, tempData |-> 0, humData |-> 0 ]

LoginIdle ==
    /\ loginHits = 0
    /\ loginReply = NoReply

SectionViewClosed ==
    /\ uiCharts = NoCharts
    /\ appCharts = NoAppCharts(TRUE, TRUE)

SignedIn ==
    /\ env = ConfiguredEnv
    /\ LoginIdle
    /\ btnDisabled = FALSE
    /\ fetches = <<>>
    /\ location = "index.html"
    /\ localStorage = ("vivero_token" :> jwtSign)
    /\ loaded = TRUE
    /\ redirects = 0
    /\ SectionViewClosed

Init ==
    /\ API_KEY \in {ValidKey, Undefined}
    /\ db = [p \in Paths |-> EmptyObject]
    /\ queue = <<>>
    /\ events = <<>>
    /\ reqs = <<>>
    /\ dbFaults = 0
    /\ PageLoaded
    /\ SignedIn

Receive ==
    /\ Len(reqs) < MaxReq
    /\ \/ \E k \in ApiKeys, b \in DataBodies : PostData(k, b)
       \/ \E k \in ApiKeys, b \in ControlBodies : PostControl(k, b)
       \/ \E h \in AuthHeaders, b \in ControlBodies : PostUiControl(h, b)

Next == Receive \/ Answer

Spec == Init /\ [][Next]_vars

----------------------------------------------------------------------------
(* Overlapping requests on one section: three requests, narrow inputs *)

MaxRaceReq == 3

RaceDataBodies ==
    { SensorBody("sol", SECTIONS["sol"].soilThreshold + d) : d \in {0, 51} }

RaceControlBodies ==
    { ("section" :> "sol") @@ ("action" :> a) : a \in {"on", "off"} }

InitRace ==
    /\ API_KEY = ValidKey
    /\ db = [p \in Paths |-> EmptyObject]
    /\ queue = <<>>
    /\ events = <<>>
    /\ reqs = <<>>
    /\ dbFaults = 0
    /\ PageLoaded
    /\ SignedIn

ReceiveRace ==
    /\ Len(reqs) < MaxRaceReq
    /\ \/ \E b \in RaceDataBodies : PostData(ValidKey, b)
       \/ \E b \in RaceControlBodies : PostUiControl(ValidAuth, b)

NextRace == ReceiveRace \/ Answer

SpecRace == InitRace /\ [][NextRace]_vars

----------------------------------------------------------------------------
(* Database calls that fail: one section, valid credentials *)

MaxFaultReq == 2

\* how many database calls of a behaviour of SpecFault may fail
MaxFaults == 1

FaultDataBodies ==
    { SensorBody("sol", SECTIONS["sol"].soilThreshold + d) : d \in SoilOffsets }

FaultControlBodies ==
    { ("section" :> "sol") @@ ("action" :> a) : a \in {"on", "off"} }

InitFault ==
    /\ API_KEY = ValidKey
    /\ db = [p \in Paths |-> EmptyObject]
    /\ queue = <<>>
    /\ events = <<>>
    /\ reqs = <<>>
    /\ dbFaults = MaxFaults
    /\ PageLoaded
    /\ SignedIn

ReceiveFault ==
    /\ Len(reqs) < MaxFaultReq
    /\ \/ \E b \in FaultDataBodies : PostData(ValidKey, b)
       \/ \E b \in FaultControlBodies : PostControl(ValidKey, b)
       \/ \E b \in FaultControlBodies : PostUiControl(ValidAuth, b)

NextFault == ReceiveFault \/ Answer

SpecFault == InitFault /\ [][NextFault]_vars

----------------------------------------------------------------------------
(* Requests on two sections, interleaved *)

MaxZoneReq == 3

\* the two sections the requests of SpecZones address
TwoZones == {"sol", "sombra"}

ZoneDataBodies ==
    { SensorBody(z, SECTIONS[z].soilThreshold + d) : z \in TwoZones,
                                                      d \in {0, 51} }

ZoneControlBodies ==
    { ("section" :> z) @@ ("action" :> a) : z \in TwoZones, a \in {"on", "off"} }

InitZones ==
    /\ API_KEY = ValidKey
    /\ db = [p \in Paths |-> EmptyObject]
    /\ queue = <<>>
    /\ events = <<>>
    /\ reqs = <<>>
    /\ dbFaults = 0
    /\ PageLoaded
    /\ SignedIn

ReceiveZones ==
    /\ Len(reqs) < MaxZoneReq
    /\ \/ \E b \in ZoneDataBodies : PostData(ValidKey, b)
       \/ \E b \in ZoneControlBodies : PostUiControl(ValidAuth, b)

NextZones == ReceiveZones \/ Answer

SpecZones == InitZones /\ [][NextZones]_vars

----------------------------------------------------------------------------
(* The dashboard of public/app.js, subscribed to the events of the server *)

\* the dash the page shows for a value that is null or undefined
NoValve == "-"

\* updateSection(section, payload), the <section>-val element:
\* payload.valvula ?? '-'.  The page has a card for each of its three
\* sections only; for another name getElementById gives null and the
\* exception is caught by the caller.
updateSection(section, payload) ==
    IF section \in Zones
    THEN [shown EXCEPT ![section] =
             IF Has(payload, "valvula") THEN payload["valvula"] ELSE NoValve]
    ELSE shown

\* socket.on('sensor-update'): if (payload) updateSection(section, payload)
SensorUpdateSeen ==
    /\ seen < Len(events)
    /\ events[seen + 1].topic = "sensor-update"
    /\ shown' = updateSection(events[seen + 1].section, events[seen + 1].data)
    /\ seen' = seen + 1
    /\ UNCHANGED <<API_KEY, db, queue, events, reqs, dbFaults, auth, pages>>

\* socket.on('control-update'): the page fetches /firebase-proxy for the
\* section, whose handler issues db.ref(p).once('value')
ControlUpdateSeen ==
    /\ seen < Len(events)
    /\ events[seen + 1].topic = "control-update"
    /\ queue' = Append(queue,
           Call(events[seen + 1].req, "proxy", events[seen + 1].section,
                EmptyObject))
    /\ seen' = seen + 1
    /\ UNCHANGED <<API_KEY, db, events, reqs, dbFaults, shown, auth, pages>>

\* the read of /firebase-proxy is answered: res.json(snap.val()), or
\* {error: 'internal'} with status 500; the page calls updateSection with
\* what it got unless that is null (a section never written)
ProxyReadDone ==
    /\ queue # <<>>
    /\ Head(queue).cont = "proxy"
    /\ \E ok \in Outcomes :
        LET c == Head(queue)
        IN  /\ queue' = Tail(queue)
            /\ shown' = IF ~ok
                         THEN updateSection(c.path, "error" :> "internal")
                         ELSE IF db[c.path] = EmptyObject THEN shown
                         ELSE updateSection(c.path, db[c.path])
            /\ dbFaults' = IF ok THEN dbFaults ELSE dbFaults - 1
            /\ UNCHANGED <<API_KEY, db, events, reqs, seen, auth, pages>>

View ==
    \/ SensorUpdateSeen
    \/ ControlUpdateSeen
    \/ ProxyReadDone

MaxViewReq == 2

ViewDataBodies ==
    { SensorBody("sol", SECTIONS["sol"].soilThreshold + d) : d \in {0, 51} }

ViewControlBodies ==
    { ("section" :> "sol") @@ ("action" :> a) : a \in {"on", "off"} }

InitView ==
    /\ API_KEY = ValidKey
    /\ db = [p \in Paths |-> EmptyObject]
    /\ queue = <<>>
    /\ events = <<>>
    /\ reqs = <<>>
    /\ dbFaults = 0
    /\ PageLoaded
    /\ SignedIn

ReceiveView ==
    /\ Len(reqs) < MaxViewReq
    /\ \/ \E b \in ViewDataBodies : PostData(ValidKey, b)
       \/ \E b \in ViewControlBodies : PostUiControl(ValidAuth, b)

NextView == ReceiveView \/ Answer \/ View

\* every database call is answered and every emitted event is delivered to
\* the connected page; requests arrive or not
SpecView ==
    /\ InitView /\ [][NextView]_vars
    /\ WF_vars(Answer)
    /\ WF_vars(View)

----------------------------------------------------------------------------
(* The point query GET /api/valve/:section *)

\* null in a JSON response
Null == "null"

\* GET /api/valve/:section, up to the read it awaits
GetValve(section) ==
    /\ UNCHANGED <<viewer, auth, pages, API_KEY, db, events, dbFaults>>
    /\ IF ~SectionLookupTruthy(section)
       THEN /\ reqs' = Append(reqs,
                   Rejected("valve", Undefined, 400, "section" :> section))
            /\ UNCHANGED queue
       ELSE /\ queue' = Append(queue,
                   Call(Len(reqs) + 1, "valve", section, EmptyObject))
            /\ reqs' = Append(reqs,
                   Req("valve", Undefined, 0, "section" :> section,
                       db[section], ~PendingOn(section), "query"))

\* { ok: true, section, valvula, ultima_actualizacion, data } with
\* data = snap.exists() ? snap.val() : {}, valvula = data.valvula || 'off',
\* ultima_actualizacion = data.ultima_actualizacion || null
ValveResponse(section, data) ==
    [ ok |-> TRUE,
      section |-> section,
      valvula |-> IF Has(data, "valvula") THEN data["valvula"] ELSE "off",
      ultima_actualizacion |->
          IF Has(data, "ultima_actualizacion")
          THEN data["ultima_actualizacion"] ELSE Null,
      data |-> data ]

\* the read of GET /api/valve/:section is answered; on failure the catch block
ValveReadDone ==
    /\ queue # <<>>
    /\ Head(queue).cont = "valve"
    /\ \E ok \in Outcomes :
        LET c == Head(queue)
        IN  /\ queue' = Tail(queue)
            /\ reqs' = IF ok
                       THEN [reqs EXCEPT
                               ![c.req].status = 200,
                               ![c.req].response =
                                   ValveResponse(c.path, db[c.path])]
                       ELSE [reqs EXCEPT ![c.req].status = 500]
            /\ dbFaults' = IF ok THEN dbFaults ELSE dbFaults - 1
            /\ UNCHANGED <<viewer, auth, pages, API_KEY, db, events>>

MaxQueryReq == 3

\* the :section of the queries: a configured zone, a name that is nowhere,
\* a member of Object.prototype
QuerySections == {"sol", "bogus", "constructor"}

QueryDataBodies ==
    { SensorBody("sol", SECTIONS["sol"].soilThreshold + d) : d \in {0, 51} }

QueryControlBodies ==
    { ("section" :> "sol") @@ ("action" :> a) : a \in {"on", "off"} }

InitQuery ==
    /\ API_KEY = ValidKey
    /\ db = [p \in Paths |-> EmptyObject]
    /\ queue = <<>>
    /\ events = <<>>
    /\ reqs = <<>>
    /\ dbFaults = 0
    /\ PageLoaded
    /\ SignedIn

ReceiveQuery ==
    /\ Len(reqs) < MaxQueryReq
    /\ \/ \E z \in QuerySections : GetValve(z)
       \/ \E b \in QueryDataBodies : PostData(ValidKey, b)
       \/ \E b \in QueryControlBodies : PostControl(ValidKey, b)

NextQuery == ReceiveQuery \/ Answer \/ ValveReadDone

SpecQuery == InitQuery /\ [][NextQuery]_vars

----------------------------------------------------------------------------
(* Readings with and without soil moisture and temperature: one section *)

MaxPolicyReq == 2

\* the section the readings of SpecPolicy are for
PolicyZone == "sombra"

\* humedad_suelo of a reading: missing, at the threshold, above the margin
PolicySoilParts ==
    {EmptyObject}
    \cup { "humedad_suelo" :> SECTIONS[PolicyZone].soilThreshold + d :
               d \in {0, 51} }

\* temp of a reading: missing, at tempLow and just above it, just below
\* tempHigh and at it
PolicyTempParts ==
    {EmptyObject}
    \cup { "temp" :> t :
               t \in { SECTIONS[PolicyZone].tempLow,
                       SECTIONS[PolicyZone].tempLow + 1,
                       SECTIONS[PolicyZone].tempHigh - 1,
                       SECTIONS[PolicyZone].tempHigh } }

\* the other sensor fields the Pico sends
AmbientFields == ("humedad_amb" :> 60) @@ ("luminosidad" :> 700)

\* a timestamp taken from the clock of the device
DeviceTime == "device-time"

PolicyBodies ==
    { ("section" :> PolicyZone) @@ sp @@ tp :
          sp \in PolicySoilParts, tp \in PolicyTempParts }
    \cup { ("section" :> PolicyZone) @@ sp @@ AmbientFields :
              sp \in PolicySoilParts }
    \cup { ("section" :> PolicyZone) @@ sp
              @@ ("ultima_actualizacion" :> DeviceTime) :
              sp \in PolicySoilParts }

PolicyControlBodies ==
    { ("section" :> PolicyZone) @@ ("action" :> a) : a \in {"on", "off"} }

InitPolicy ==
    /\ API_KEY = ValidKey
    /\ db = [p \in Paths |-> EmptyObject]
    /\ queue = <<>>
    /\ events = <<>>
    /\ reqs = <<>>
    /\ dbFaults = 0
    /\ PageLoaded
    /\ SignedIn

ReceivePolicy ==
    /\ Len(reqs) < MaxPolicyReq
    /\ \/ \E b \in PolicyBodies : PostData(ValidKey, b)
       \/ \E b \in PolicyControlBodies : PostUiControl(ValidAuth, b)

NextPolicy == ReceivePolicy \/ Answer

SpecPolicy == InitPolicy /\ [][NextPolicy]_vars

----------------------------------------------------------------------------
(* Sequences of readings around the hysteresis band: one section *)

MaxBandReq == 3

\* soil readings as distances from soilThreshold: at the threshold, at the
\* two ends of the band (soilThreshold, soilThreshold + 50], just above it
BandOffsets == {0, 1, HysteresisMargin, HysteresisMargin + 1}

BandDataBodies ==
    { SensorBody("sol", SECTIONS["sol"].soilThreshold + d) : d \in BandOffsets }

BandControlBodies ==
    { ("section" :> "sol") @@ ("action" :> a) : a \in {"on", "off"} }

InitBand ==
    /\ API_KEY = ValidKey
    /\ db = [p \in Paths |-> EmptyObject]
    /\ queue = <<>>
    /\ events = <<>>
    /\ reqs = <<>>
    /\ dbFaults = 0
    /\ PageLoaded
    /\ SignedIn

ReceiveBand ==
    /\ Len(reqs) < MaxBandReq
    /\ \/ \E b \in BandDataBodies : PostData(ValidKey, b)
       \/ \E b \in BandControlBodies : PostUiControl(ValidAuth, b)

NextBand == ReceiveBand \/ Answer

SpecBand == InitBand /\ [][NextBand]_vars

----------------------------------------------------------------------------
(* The login endpoint POST /api/auth/login *)

\* {ok:false, error} and {ok:true, token}
LoginError(status, error) ==
    [status |-> status, response |-> ("ok" :> FALSE) @@ ("error" :> error)]

LoginToken(token) ==
    [status |-> 200, response |-> ("ok" :> TRUE) @@ ("token" :> token)]

\* the plain password is compared also when a hash is configured
passwordOk_PlainAlso(password) ==
    \/ /\ ~Falsy(env.ADMIN_PASSWORD_HASH)
       /\ bcryptCompare(password, env.ADMIN_PASSWORD_HASH)
    \/ /\ ~Falsy(env.ADMIN_PLAIN_PASSWORD)
       /\ password = env.ADMIN_PLAIN_PASSWORD

\* ok: bcrypt.compare(password, adminHash) if adminHash is set, else
\* password === adminPlain if adminPlain is set, else false
passwordOk(password) ==
    IF ~Falsy(env.ADMIN_PASSWORD_HASH)
    THEN bcryptCompare(password, env.ADMIN_PASSWORD_HASH)
    ELSE IF ~Falsy(env.ADMIN_PLAIN_PASSWORD)
    THEN password = env.ADMIN_PLAIN_PASSWORD
    ELSE FALSE

\* the handler of POST /api/auth/login, from the parsed body to the response.
\* bcrypt.compare throws for a password that is not a string and jwt.sign
\* throws without a secret: both end in the catch, with status 500.
loginHandler(body) ==
    LET email    == Get(body, "email")
        password == Get(body, "password")
    IN  IF Falsy(email) \/ Falsy(password)
        THEN LoginError(400, "missing fields")
        ELSE IF email # env.ADMIN_EMAIL
        THEN LoginError(401, "invalid credentials")
        ELSE IF ~Falsy(env.ADMIN_PASSWORD_HASH) /\ password = NumberValue
        THEN LoginError(500, "internal")
        ELSE IF ~passwordOk(password)
        THEN LoginError(401, "invalid credentials")
        ELSE IF Falsy(env.JWT_SECRET)
        THEN LoginError(500, "internal")
        ELSE LoginToken(jwtSign)

\* what a request to /api/auth/login is answered when it is the n-th of the
\* window: loginLimiter answers 429 from the seventh on, without calling
\* the handler
loginAnswer(n, body) ==
    IF n > LoginLimit
    THEN [status |-> 429, response |-> EmptyObject]
    ELSE loginHandler(body)

MaxLoginHits == 7

\* POST /api/auth/login
PostLogin(body) ==
    /\ loginHits < MaxLoginHits
    /\ loginHits' = loginHits + 1
    /\ loginReply' = [ body     |-> body,
                       status   |-> loginAnswer(loginHits + 1, body).status,
                       response |-> loginAnswer(loginHits + 1, body).response ]

\* windowMs has passed: loginLimiter starts to count again
WindowExpires ==
    /\ loginHits > 0
    /\ loginHits' = 0
    /\ UNCHANGED <<env, loginReply>>

\* the server and the dashboard, for the steps that involve neither
server == <<API_KEY, db, queue, events, reqs, dbFaults>>

Environments ==
    [ ADMIN_EMAIL          : {Undefined, AdminEmail},
      ADMIN_PASSWORD_HASH  : {Undefined, "", AdminHash},
      ADMIN_PLAIN_PASSWORD : {Undefined, DevPassword},
      JWT_SECRET           : {Undefined, JwtSecret} ]

LoginEmails == {AdminEmail, "other@vivero", ""}

LoginPasswords == {AdminPassword, DevPassword, "wrong", NumberValue, ""}

LoginBodies ==
    { ("email" :> e) @@ ("password" :> w) :
          e \in LoginEmails, w \in LoginPasswords }
    \cup { "email" :> e : e \in LoginEmails }
    \cup { "password" :> w : w \in LoginPasswords }
    \cup { EmptyObject }

InitLogin ==
    /\ API_KEY = ValidKey
    /\ db = [p \in Paths |-> EmptyObject]
    /\ queue = <<>>
    /\ events = <<>>
    /\ reqs = <<>>
    /\ dbFaults = 0
    /\ PageLoaded
    /\ env \in Environments
    /\ LoginIdle
    /\ btnDisabled = FALSE
    /\ fetches = <<>>
    /\ location = "login.html"
    /\ localStorage = EmptyObject
    /\ loaded = TRUE
    /\ redirects = 0
    /\ SectionViewClosed

ReceiveLogin ==
    /\ \E b \in LoginBodies : PostLogin(b)
    /\ UNCHANGED <<env, server, viewer, pages>>

TimePasses ==
    /\ WindowExpires
    /\ UNCHANGED <<server, viewer, pages>>

NextLogin == ReceiveLogin \/ TimePasses

SpecLogin == InitLogin /\ [][NextLogin]_vars

----------------------------------------------------------------------------
(* The login page of public/login.js *)

\* the strings that consist of white space only
BlankStrings == {"", " "}

\* s.trim(), for the strings of the model: none of the others begins or ends
\* with white space
Trim(s) == IF s \in BlankStrings THEN "" ELSE s

MaxRedirects == 4

\* window.location.href = '/<page>': the browser leaves the document, whose
\* pending fetches are dropped, and loads the page
Redirect(page) ==
    /\ redirects < MaxRedirects
    /\ location' = page
    /\ loaded' = FALSE
    /\ redirects' = redirects + 1

\* localStorage.setItem(key, value)
SetItem(key, value) ==
    [k \in DOMAIN localStorage \cup {key} |->
        IF k = key THEN value ELSE localStorage[k]]

\* the login page is open and its script has attached the listeners
OnLoginPage == location = "login.html" /\ loaded

\* doLogin() up to its first await, with the values of the two inputs:
\* without email or password the button is enabled again at once, else the
\* request is sent and the button stays disabled
doLogin(emailValue, passValue) ==
    LET email == Trim(emailValue)
    IN  IF email = "" \/ passValue = ""
        THEN /\ btnDisabled' = FALSE
             /\ UNCHANGED fetches
        ELSE /\ btnDisabled' = TRUE
             /\ fetches' = Append(fetches,
                               ("email" :> email) @@ ("password" :> passValue))

MaxInFlight == 2

PageEmails == {AdminEmail, " "}

PagePasswords == {AdminPassword, "wrong", ""}

\* btn 'click' -> doLogin: a disabled button dispatches no click
ClickLogin ==
    /\ OnLoginPage
    /\ ~btnDisabled
    /\ Len(fetches) < MaxInFlight
    /\ \E e \in PageEmails, w \in PagePasswords : doLogin(e, w)
    /\ UNCHANGED <<server, viewer, auth, window, uiCharts, appCharts>>

\* passEl 'keyup' with e.key === 'Enter' -> doLogin
EnterKey ==
    /\ OnLoginPage
    /\ Len(fetches) < MaxInFlight
    /\ \E e \in PageEmails, w \in PagePasswords : doLogin(e, w)
    /\ UNCHANGED <<server, viewer, auth, window, uiCharts, appCharts>>

\* the sequence without its k-th element
Without(seq, k) == SubSeq(seq, 1, k - 1) \o SubSeq(seq, k + 1, Len(seq))

\* res.ok
ResOk(status) == status >= 200 /\ status <= 299

\* one of the pending fetches is answered by the server, and doLogin goes on
\* after its await: with a token it stores it and leaves for the dashboard,
\* in every other case it enables the button
LoginAnswered ==
    /\ OnLoginPage
    /\ \E k \in 1..Len(fetches) :
        /\ PostLogin(fetches[k])
        /\ IF /\ ResOk(loginReply'.status)
              /\ Get(loginReply'.response, "ok") = TRUE
              /\ Has(loginReply'.response, "token")
           THEN /\ localStorage' =
                       SetItem("vivero_token", loginReply'.response["token"])
                /\ Redirect("index.html")
                /\ fetches' = <<>>
                /\ UNCHANGED btnDisabled
           ELSE /\ btnDisabled' = FALSE
                /\ fetches' = Without(fetches, k)
                /\ UNCHANGED window
    /\ UNCHANGED <<env, server, viewer, uiCharts, appCharts>>

\* one of the pending fetches is rejected (the server cannot be reached):
\* the catch enables the button
FetchFails ==
    /\ OnLoginPage
    /\ \E k \in 1..Len(fetches) : fetches' = Without(fetches, k)
    /\ btnDisabled' = FALSE
    /\ UNCHANGED <<server, viewer, auth, window, uiCharts, appCharts>>

InitLoginPage ==
    /\ API_KEY = ValidKey
    /\ db = [p \in Paths |-> EmptyObject]
    /\ queue = <<>>
    /\ events = <<>>
    /\ reqs = <<>>
    /\ dbFaults = 0
    /\ PageLoaded
    /\ env = ConfiguredEnv
    /\ LoginIdle
    /\ btnDisabled = FALSE
    /\ fetches = <<>>
    /\ location = "login.html"
    /\ localStorage = EmptyObject
    /\ loaded = TRUE
    /\ redirects = 0
    /\ SectionViewClosed

NextLoginPage ==
    ClickLogin \/ EnterKey \/ LoginAnswered \/ FetchFails \/ TimePasses

SpecLoginPage == InitLoginPage /\ [][NextLoginPage]_vars

----------------------------------------------------------------------------
(* Page guarding: the login page and requireAuthOnProtectedPages *)

\* localStorage.getItem(key) is truthy: the key is set, to a string that is
\* not empty
Stored(key) == Has(localStorage, key) /\ localStorage[key] # ""

\* the script of the login page, after it has attached the listeners:
\* if (localStorage.getItem('vivero_token')) window.location.href =
\* '/index.html'
LoginPageLoads ==
    /\ location = "login.html"
    /\ ~loaded
    /\ IF Stored("vivero_token")
       THEN Redirect("index.html")
       ELSE /\ loaded' = TRUE
            /\ UNCHANGED <<location, redirects>>
    /\ UNCHANGED <<server, viewer, auth, localStorage,
                   btnDisabled, fetches, uiCharts, appCharts>>

\* the pages requireAuthOnProtectedPages lets pass without a token; '' is
\* the root
PublicPages == {"login.html", ""}

\* localStorage.getItem('vivero_token') || localStorage.getItem('token');
\* Undefined stands for the null of a key that is not set
GuardToken ==
    IF Stored("vivero_token")
    THEN localStorage["vivero_token"]
    ELSE Get(localStorage, "token")

\* !token || token === 'null' || token.trim() === ''
TokenMissing(token) ==
    \/ Falsy(token)
    \/ token = "null"
    \/ Trim(token) = ""

\* the storage is left as it is
ClearedStorage_Kept == localStorage

\* the storage after removeItem('vivero_token') and removeItem('token')
ClearedStorage ==
    [k \in DOMAIN localStorage \ {"vivero_token", "token"} |-> localStorage[k]]

\* DOMContentLoaded on a page that includes main-ui.js:
\* requireAuthOnProtectedPages(), after which the page is initialised.
\* Its catch is not entered: nothing in the try throws while the storage
\* can be read.
ProtectedPageLoads ==
    /\ location # "login.html"
    /\ ~loaded
    /\ IF location \notin PublicPages /\ TokenMissing(GuardToken)
       THEN /\ localStorage' = ClearedStorage
            /\ Redirect("login.html")
       ELSE /\ loaded' = TRUE
            /\ UNCHANGED <<location, redirects, localStorage>>
    /\ UNCHANGED <<server, viewer, auth,
                   btnDisabled, fetches, uiCharts, appCharts>>

\* the pages a browser can be sent to
Pages == {"login.html", "index.html", "section.html", ""}

\* what a key of the storage can hold
TokenValues == {"", "null", " ", jwtSign, "expired-token"}

\* the storage with each of the two keys set or not
Storages ==
    { EmptyObject }
    \cup { "vivero_token" :> v : v \in TokenValues }
    \cup { "token" :> v : v \in TokenValues }
    \cup { ("vivero_token" :> v) @@ ("token" :> w) :
               v \in TokenValues, w \in TokenValues }

\* the browser is pointed at one of the pages, with any storage
InitGuard ==
    /\ API_KEY = ValidKey
    /\ db = [p \in Paths |-> EmptyObject]
    /\ queue = <<>>
    /\ events = <<>>
    /\ reqs = <<>>
    /\ dbFaults = 0
    /\ PageLoaded
    /\ env = ConfiguredEnv
    /\ LoginIdle
    /\ btnDisabled = FALSE
    /\ fetches = <<>>
    /\ location \in Pages
    /\ localStorage \in Storages
    /\ loaded = FALSE
    /\ redirects = 0
    /\ SectionViewClosed

NextGuard == LoginPageLoads \/ ProtectedPageLoads

\* the browser runs the scripts of the document it has loaded
SpecGuard ==
    /\ InitGuard /\ [][NextGuard]_vars
    /\ WF_vars(NextGuard)

----------------------------------------------------------------------------
(* The charts of the section detail view *)

\* the number of points a chart keeps
ChartPoints == 30

\* array.shift() on the length of the array: nothing happens to an empty one
Shift(n) == IF n > 0 THEN n - 1 ELSE 0

\* what /firebase-proxy can answer for a section that has data: an object
\* with or without humedad_suelo, with or without temp.  For a section
\* without data the answer is null and refresh returns before it touches
\* the charts.
SectionData ==
    { EmptyObject,
      "humedad_suelo" :> 300,
      "temp" :> 20,
      ("humedad_suelo" :> 300) @@ ("temp" :> 20) }

\* the bound on the arrays of the model
MaxChartLen == 32

\* main-ui.js, initSectionView: refresh() after its fetch.  Each chart gets
\* a point if its field is there; all five arrays are shifted when the
\* labels of the soil chart are more than thirty.
initSectionView_refresh(data) ==
    LET soilPushed ==
            IF Has(data, "humedad_suelo")
            THEN [uiCharts EXCEPT !.soilLabels = @ + 1, !.soilData = @ + 1]
            ELSE uiCharts
        pushed ==
            IF Has(data, "temp")
            THEN [soilPushed EXCEPT !.tempLabels = @ + 1,
                                    !.tempData = @ + 1, !.humData = @ + 1]
            ELSE soilPushed
    IN  /\ uiCharts.tempLabels < MaxChartLen
        /\ uiCharts' =
               IF pushed.soilLabels > ChartPoints
               THEN [ soilLabels |-> Shift(pushed.soilLabels),
                      soilData   |-> Shift(pushed.soilData),
                      tempLabels |-> Shift(pushed.tempLabels),
                      tempData   |-> Shift(pushed.tempData),
                      humData    |-> Shift(pushed.humData) ]
               ELSE pushed

\* app.js, section page: refresh() after its fetch.  Each chart that exists
\* gets a point (0 for a missing field) and is shifted when its own labels
\* are more than thirty.
refresh(data) ==
    LET soilPushed ==
            IF appCharts.soilChart
            THEN [appCharts EXCEPT !.soilLabels = @ + 1, !.soilData = @ + 1]
            ELSE appCharts
        soilDone ==
            IF soilPushed.soilLabels > ChartPoints
            THEN [soilPushed EXCEPT !.soilLabels = Shift(@),
                                    !.soilData = Shift(@)]
            ELSE soilPushed
        tempPushed ==
            IF appCharts.tempChart
            THEN [soilDone EXCEPT !.tempLabels = @ + 1,
                                  !.tempData = @ + 1, !.humData = @ + 1]
            ELSE soilDone
    IN  /\ appCharts.tempLabels < MaxChartLen
        /\ appCharts' =
               IF tempPushed.tempLabels > ChartPoints
               THEN [tempPushed EXCEPT !.tempLabels = Shift(@),
                                       !.tempData = Shift(@),
                                       !.humData = Shift(@)]
               ELSE tempPushed

\* a refresh of the view of main-ui.js
RefreshUi ==
    /\ \E d \in SectionData : initSectionView_refresh(d)
    /\ UNCHANGED <<server, viewer, auth, btnDisabled, fetches, window,
                   appCharts>>

\* a refresh of the page of app.js
RefreshApp ==
    /\ \E d \in SectionData : refresh(d)
    /\ UNCHANGED <<server, viewer, auth, btnDisabled, fetches, window,
                   uiCharts>>

\* the section detail view is open, its charts just created
InitCharts ==
    /\ API_KEY = ValidKey
    /\ db = [p \in Paths |-> EmptyObject]
    /\ queue = <<>>
    /\ events = <<>>
    /\ reqs = <<>>
    /\ dbFaults = 0
    /\ PageLoaded
    /\ env = ConfiguredEnv
    /\ LoginIdle
    /\ btnDisabled = FALSE
    /\ fetches = <<>>
    /\ location = "section.html"
    /\ localStorage = ("vivero_token" :> jwtSign)
    /\ loaded = TRUE
    /\ redirects = 0
    /\ uiCharts = NoCharts
    /\ \E soilCanvas \in BOOLEAN, tempCanvas \in BOOLEAN :
           appCharts = NoAppCharts(soilCanvas, tempCanvas)

NextCharts == RefreshUi \/ RefreshApp

SpecCharts == InitCharts /\ [][NextCharts]_vars

----------------------------------------------------------------------------
(* Vocabulary of the properties *)

ReqIds == 1..Len(reqs)

ControlKinds == {"control", "ui-control"}

\* the request got past authentication and validation: a database call was
\* issued for it
Accepted(i) == reqs[i].decision # "rejected"

SectionOf(i) == reqs[i].body["section"]

\* a successful ingest / a successful manual apply
IsIngest(i) == reqs[i].kind = "data" /\ reqs[i].status = 200
IsApply(i)  == reqs[i].kind \in ControlKinds /\ reqs[i].status = 200

\* the response was sent and no database call of the request is pending
Finished(i) ==
    /\ reqs[i].status # 0
    /\ \A k \in 1..Len(queue) : queue[k].req # i

\* no later request went to the database for the same section
LastOn(i) ==
    \A j \in ReqIds : j > i /\ Accepted(j) => SectionOf(j) # SectionOf(i)

\* the request ran with no other operation on its section: none was in
\* progress when it arrived, none arrived after it
Alone(i) == reqs[i].quiet /\ LastOn(i)

\* the fields of a stored object that describe the valve
ControlFieldNames == {"valvula", "manual_override", "reason"}

\* a reading as spec section 3 defines it: sensor fields only
SensorOnly(body) == DOMAIN body \cap ControlFieldNames = {}

SameField(a, b, f) == Has(a, f) = Has(b, f) /\ (Has(a, f) => a[f] = b[f])

Soil(i) == reqs[i].body["humedad_suelo"]
Threshold(i) == SECTIONS[SectionOf(i)].soilThreshold

\* an ingest of a configured zone that carries a soil reading
IsZoneIngest(i) ==
    /\ IsIngest(i)
    /\ SectionOf(i) \in Zones
    /\ Has(reqs[i].body, "humedad_suelo")

\* the same, for a reading with sensor fields only, run alone and finished
IsSettledReading(i) ==
    /\ IsZoneIngest(i)
    /\ SensorOnly(reqs[i].body)
    /\ Alone(i)
    /\ Finished(i)

\* what the code of one request leaves in the store when nothing else runs
\* between its database calls
RunData(stored, body) ==
    LET payload == Update(body, "ultima_actualizacion" :> ServerTime)
        merged  == Update(stored, payload)
        cfg     == SectionLookup(body["section"])
    IN  IF SoilLow(cfg, payload) THEN Update(merged, AutoOnFields)
        ELSE IF ShouldClose(cfg, payload, merged)
             THEN Update(merged, AutoOffFields)
             ELSE merged

RunControl(stored, body) == Update(stored, ManualFields(body["action"]))

RunRequest(stored, r) ==
    IF r.kind = "data" THEN RunData(stored, r.body)
    ELSE RunControl(stored, r.body)

----------------------------------------------------------------------------
(* C1 *)

\* B is the request that follows A on A's section, and nothing follows B there
NextAndLastOn(a, b) ==
    /\ a < b
    /\ Accepted(a) /\ Accepted(b)
    /\ SectionOf(a) = SectionOf(b)
    /\ \A j \in ReqIds :
          j > a /\ j # b /\ Accepted(j) => SectionOf(j) # SectionOf(a)

\* C1: an ingest and a manual apply on the same zone, accepted in the order
\* A then B and possibly overlapping, leave the zone's valve, manual_override
\* and reason as running A to completion and only then B leaves them.
C1_SameZoneInOrder ==
    \A a \in ReqIds, b \in ReqIds :
        ( /\ NextAndLastOn(a, b)
          /\ SectionOf(a) \in Zones
          /\ reqs[a].quiet
          /\ \/ IsIngest(a) /\ IsApply(b)
             \/ IsApply(a) /\ IsIngest(b)
          /\ Finished(a) /\ Finished(b) )
        => LET serial == RunRequest(RunRequest(reqs[a].pre, reqs[a]), reqs[b])
           IN  \A f \in ControlFieldNames :
                   SameField(db[SectionOf(a)], serial, f)

----------------------------------------------------------------------------
(* C2 *)

\* C2: once a manual "on" has been written and no later request addressed the
\* zone, the stored valve is "on": no automatic close decided from an earlier
\* read overwrites it.
C2_ManualOpenNotOverwritten ==
    \A i \in ReqIds :
        ( /\ IsApply(i)
          /\ SectionOf(i) \in Zones
          /\ reqs[i].body["action"] = "on"
          /\ LastOn(i) )
        => Get(db[SectionOf(i)], "valvula") = "on"

----------------------------------------------------------------------------
(* C3 *)

\* C3: an ingest of a known zone with soil <= soilThreshold decides "on",
\* whatever was stored; run alone, it leaves valvula "on" and reason
\* auto_soil_low.
C3_SoilLowOpens ==
    \A i \in ReqIds :
        IsZoneIngest(i) /\ Soil(i) <= Threshold(i)
        => /\ reqs[i].decision = "on"
           /\ reqs[i].suggestions[1] = MsgSoilLow
           /\ (Alone(i) /\ Finished(i))
              => ( /\ Get(db[SectionOf(i)], "valvula") = "on"
                   /\ Get(db[SectionOf(i)], "reason") = "auto_soil_low" )

\* a reading at the threshold has opened a valve that a manual apply had closed
C3_Witness ==
    \E i \in ReqIds :
        /\ IsZoneIngest(i) /\ Soil(i) = Threshold(i)
        /\ Alone(i) /\ Finished(i)
        /\ Get(reqs[i].pre, "valvula") = "off"
        /\ ManualOverride(reqs[i].pre)
        /\ Get(db[SectionOf(i)], "valvula") = "on"

----------------------------------------------------------------------------
(* C4 *)

\* C4: valve "on" without manual override, then an ingest with
\* soil > soilThreshold + 50 and nothing else on the zone: the valve action is
\* "off", valvula becomes "off" and reason soil_ok.
C4_AboveMarginCloses ==
    \A i \in ReqIds :
        ( /\ IsSettledReading(i)
          /\ Soil(i) > Threshold(i) + HysteresisMargin
          /\ Get(reqs[i].pre, "valvula") = "on"
          /\ ~ManualOverride(reqs[i].pre) )
        => /\ reqs[i].decision = "off"
           /\ Get(db[SectionOf(i)], "valvula") = "off"
           /\ Get(db[SectionOf(i)], "reason") = "soil_ok"

C4_Witness ==
    \E i \in ReqIds :
        /\ IsSettledReading(i)
        /\ Soil(i) = Threshold(i) + HysteresisMargin + 1
        /\ Get(reqs[i].pre, "valvula") = "on"
        /\ ~ManualOverride(reqs[i].pre)
        /\ Get(db[SectionOf(i)], "valvula") = "off"

----------------------------------------------------------------------------
(* C5 *)

\* C5: with manual_override stored as true, an ingest with
\* soil > soilThreshold + 50 takes no valve action: valvula and
\* manual_override are after it what they were before it.
C5_OverrideBlocksClose ==
    \A i \in ReqIds :
        ( /\ IsSettledReading(i)
          /\ Soil(i) > Threshold(i) + HysteresisMargin
          /\ ManualOverride(reqs[i].pre) )
        => /\ reqs[i].decision = "none"
           /\ SameField(db[SectionOf(i)], reqs[i].pre, "valvula")
           /\ SameField(db[SectionOf(i)], reqs[i].pre, "manual_override")

\* a valve opened by hand is still open after a reading above the margin
C5_Witness ==
    \E i \in ReqIds :
        /\ IsSettledReading(i)
        /\ Soil(i) > Threshold(i) + HysteresisMargin
        /\ ManualOverride(reqs[i].pre)
        /\ Get(reqs[i].pre, "valvula") = "on"
        /\ Get(db[SectionOf(i)], "valvula") = "on"

----------------------------------------------------------------------------
(* C6 *)

\* C6: with valvula "on" stored, an ingest with
\* soilThreshold < soil <= soilThreshold + 50 takes no valve action: valvula,
\* manual_override and reason are unchanged, with or without manual override,
\* also at soil = soilThreshold + 50.
C6_BandHolds ==
    \A i \in ReqIds :
        ( /\ IsSettledReading(i)
          /\ Soil(i) > Threshold(i)
          /\ Soil(i) <= Threshold(i) + HysteresisMargin
          /\ Get(reqs[i].pre, "valvula") = "on" )
        => /\ reqs[i].decision = "none"
           /\ \A f \in ControlFieldNames :
                  SameField(db[SectionOf(i)], reqs[i].pre, f)

\* a reading at the upper end of the band left an automatically opened valve open
C6_Witness ==
    \E i \in ReqIds :
        /\ IsSettledReading(i)
        /\ Soil(i) = Threshold(i) + HysteresisMargin
        /\ Get(reqs[i].pre, "valvula") = "on"
        /\ ~ManualOverride(reqs[i].pre)
        /\ Get(db[SectionOf(i)], "valvula") = "on"

----------------------------------------------------------------------------
(* C7 *)

\* the request before i on i's section is a successful manual apply
FollowsApply(i) ==
    \E j \in ReqIds :
        /\ j < i
        /\ IsApply(j)
        /\ SectionOf(j) = SectionOf(i)
        /\ \A k \in ReqIds :
              j < k /\ k < i /\ Accepted(k) => SectionOf(k) # SectionOf(i)

\* C7: a manual apply followed by an ingest with soil <= soilThreshold on the
\* same zone, nothing else on the zone: valvula ends "on" and manual_override
\* false.
C7_AutoOpenClearsOverride ==
    \A i \in ReqIds :
        ( /\ IsZoneIngest(i) /\ Soil(i) <= Threshold(i)
          /\ SensorOnly(reqs[i].body)
          /\ FollowsApply(i)
          /\ Alone(i) /\ Finished(i) )
        => /\ Get(db[SectionOf(i)], "valvula") = "on"
           /\ ~ManualOverride(db[SectionOf(i)])

----------------------------------------------------------------------------
(* C8, C9 *)

\* this step serves the update(payload) of POST /api/data and the write took
\* place
MergeStep ==
    /\ queue # <<>>
    /\ Head(queue).cont = "data"
    /\ reqs'[Head(queue).req].status = 200

\* C8: the merge of a payload that has neither valvula nor manual_override
\* leaves the stored valvula and manual_override as they were.
C8_MergeKeepsControlFields ==
    [][ ( /\ MergeStep
          /\ ~Has(Head(queue).fields, "valvula")
          /\ ~Has(Head(queue).fields, "manual_override") )
        => /\ SameField(db'[Head(queue).path], db[Head(queue).path], "valvula")
           /\ SameField(db'[Head(queue).path], db[Head(queue).path],
                        "manual_override") ]_vars

\* a reading has been merged over a section that held valvula and
\* manual_override
C8_Witness ==
    \E i \in ReqIds :
        /\ IsIngest(i)
        /\ SensorOnly(reqs[i].body)
        /\ reqs[i].quiet
        /\ Has(reqs[i].pre, "valvula")
        /\ Has(reqs[i].pre, "manual_override")
        /\ Has(db[SectionOf(i)], "humedad_suelo")

\* C9: the raw merge of a device payload never writes valvula or
\* manual_override, whatever the payload carries, and the stored valvula is
\* always "on" or "off".
C9_MergeNeverWritesControl ==
    [][ /\ MergeStep
           => /\ SameField(db'[Head(queue).path], db[Head(queue).path],
                           "valvula")
              /\ SameField(db'[Head(queue).path], db[Head(queue).path],
                           "manual_override")
        /\ \A p \in Paths :
              Has(db'[p], "valvula") => db'[p]["valvula"] \in {"on", "off"} ]_vars

----------------------------------------------------------------------------
(* C10 *)

StoredSections == { p \in Paths : db[p] # EmptyObject }

\* this step receives a POST /api/data that carries the API key
DataArrives ==
    /\ Len(reqs') = Len(reqs) + 1
    /\ reqs'[Len(reqs')].kind = "data"
    /\ reqs'[Len(reqs')].status # 401

\* C10: an ingest whose section is missing or not configured gets an error
\* response, changes nothing in the store and emits nothing; the sections
\* with stored state are always configured zones.
C10_UnknownZoneRejected ==
    [][ /\ ( /\ DataArrives
             /\ \/ ~Has(reqs'[Len(reqs')].body, "section")
                \/ reqs'[Len(reqs')].body["section"] \notin Zones )
           => /\ reqs'[Len(reqs')].status = 400
              /\ UNCHANGED <<db, queue, events>>
        /\ StoredSections' \subseteq Zones ]_vars

----------------------------------------------------------------------------
(* C11 *)

\* this step receives a request on one of the two control endpoints
ControlArrives ==
    /\ Len(reqs') = Len(reqs) + 1
    /\ reqs'[Len(reqs')].kind \in ControlKinds

\* C11: a manual apply whose section is not a configured zone, or whose action
\* is not "on" / "off", is rejected as an invalid request: the store is
\* unchanged (no state is created for the section) and nothing is emitted.
C11_InvalidApplyRejected ==
    [][ ( /\ ControlArrives
          /\ reqs'[Len(reqs')].status # 401
          /\ \/ ~Has(reqs'[Len(reqs')].body, "section")
             \/ reqs'[Len(reqs')].body["section"] \notin Zones
             \/ Get(reqs'[Len(reqs')].body, "action") \notin {"on", "off"} )
        => /\ reqs'[Len(reqs')].status = 400
           /\ UNCHANGED <<db, queue, events>> ]_vars

----------------------------------------------------------------------------
(* C12 *)

\* the credential of request record r is the one its endpoint asks for: a
\* Bearer token signed with the secret on /api/ui/control, the configured API
\* key on /api/control
CredentialValid(r, key) ==
    IF r.kind = "ui-control"
    THEN r.cred \in { <<"Bearer", t>> : t \in SignedTokens }
    ELSE key # Undefined /\ r.cred = key

\* C12: a manual control request without a valid credential is answered 401
\* before its body is read, changes nothing in the store and emits nothing;
\* every manual valve write and every control-update belongs to a request
\* that carried a valid credential.
C12_ControlNeedsCredential ==
    [][ /\ ( ControlArrives
             /\ ~CredentialValid(reqs'[Len(reqs')], API_KEY) )
           => /\ reqs'[Len(reqs')].status = 401
              /\ reqs'[Len(reqs')].body = EmptyObject
              /\ UNCHANGED <<db, queue, events>>
        /\ \A k \in 1..Len(queue') :
              queue'[k].cont = "control"
              => CredentialValid(reqs'[queue'[k].req], API_KEY)
        /\ \A k \in 1..Len(events') :
              events'[k].topic = "control-update"
              => CredentialValid(reqs'[events'[k].req], API_KEY) ]_vars

\* requests were turned away on both endpoints: a token under another scheme
\* on the UI endpoint, a wrong key on the API-key endpoint
C12_Witness ==
    \E i \in ReqIds, j \in ReqIds :
        /\ reqs[i].kind = "ui-control" /\ reqs[i].status = 401
        /\ reqs[i].cred = <<"Basic", "jwt-admin">>
        /\ reqs[j].kind = "control" /\ reqs[j].status = 401
        /\ reqs[j].cred = "k-wrong"
        /\ events = <<>> /\ queue = <<>>

----------------------------------------------------------------------------
(* C13, C14 *)

\* this step serves the update of a control endpoint and the write took place
ControlStep ==
    /\ queue # <<>>
    /\ Head(queue).cont = "control"
    /\ reqs'[Head(queue).req].status = 200

TimestampField == "ultima_actualizacion"

\* C13: right after a successful manual apply(zone, action) the stored valvula
\* is the action, manual_override is true, and every stored field other than
\* the control fields and the timestamp is as it was.
C13_ApplyWritesControlOnly ==
    [][ ControlStep
        => LET p == Head(queue).path
               a == reqs[Head(queue).req].body["action"]
           IN  /\ Get(db'[p], "valvula") = a
               /\ ManualOverride(db'[p])
               /\ \A f \in (DOMAIN db[p] \cup DOMAIN db'[p])
                             \ (ControlFieldNames \cup {TimestampField}) :
                      SameField(db'[p], db[p], f) ]_vars

\* a manual apply has been written over a zone that held a reading
C13_Witness ==
    \E i \in ReqIds :
        /\ IsApply(i)
        /\ SectionOf(i) \in Zones
        /\ reqs[i].quiet /\ LastOn(i)
        /\ Has(reqs[i].pre, "humedad_suelo")
        /\ SameField(db[SectionOf(i)], reqs[i].pre, "humedad_suelo")
        /\ Get(db[SectionOf(i)], "valvula") = reqs[i].body["action"]
        /\ ManualOverride(db[SectionOf(i)])

\* C14: after a successful manual apply the stored reason of the zone is
\* absent.
C14_ApplyClearsReason ==
    [][ ControlStep => ~Has(db'[Head(queue).path], "reason") ]_vars

----------------------------------------------------------------------------
(* C15 *)

\* this step serves the database call at the head of the queue, whose
\* continuation is cont, and the call fails
FailStep(cont) ==
    /\ queue # <<>>
    /\ Head(queue).cont = cont
    /\ dbFaults' < dbFaults

\* the positions of the events of request i on a topic, in a list of events
EventsOf(evs, i, topic) ==
    { k \in 1..Len(evs) : evs[k].req = i /\ evs[k].topic = topic }

\* C15: a successful manual apply emits exactly one control-update, carrying
\* its section and action, and emits it when the valve write is in the store;
\* an apply whose write fails answers with an error and emits nothing.
C15_ControlUpdateAfterWrite ==
    [][ /\ \A i \in 1..Len(reqs') :
              reqs'[i].kind \in ControlKinds
              => Cardinality(EventsOf(events', i, "control-update"))
                     = IF reqs'[i].status = 200 THEN 1 ELSE 0
        /\ \A k \in 1..Len(events') :
              events'[k].topic = "control-update"
              => /\ events'[k].section = reqs'[events'[k].req].body["section"]
                 /\ events'[k].data["action"]
                        = reqs'[events'[k].req].body["action"]
        /\ ControlStep
              => /\ Len(events') = Len(events) + 1
                 /\ events'[Len(events')].req = Head(queue).req
                 /\ Get(db'[Head(queue).path], "valvula")
                        = events'[Len(events')].data["action"]
        /\ FailStep("control")
              => /\ reqs'[Head(queue).req].status = 500
                 /\ events' = events
                 /\ db' = db ]_vars

\* one manual apply was written and announced, another failed in the store
C15_Witness ==
    \E i \in ReqIds, j \in ReqIds :
        /\ IsApply(i)
        /\ EventsOf(events, i, "control-update") # {}
        /\ reqs[j].kind \in ControlKinds
        /\ reqs[j].status = 500
        /\ EventsOf(events, j, "control-update") = {}

----------------------------------------------------------------------------
(* C16 *)

\* C16: when the merge of an ingest fails in the store, the ingest answers
\* with an error, no policy evaluation or valve write is made for the reading
\* and no sensor-update is emitted.
C16_MergeFailureFailsIngest ==
    [][ /\ FailStep("data")
           => /\ reqs'[Head(queue).req].status = 500
              /\ queue' = Tail(queue)
              /\ events' = events
              /\ db' = db
        /\ \A i \in 1..Len(reqs') :
              reqs'[i].kind = "data" /\ reqs'[i].status = 500
              => /\ \A k \in 1..Len(queue') : queue'[k].req # i
                 /\ EventsOf(events', i, "sensor-update") = {}
                 /\ reqs'[i].suggestions = <<>> ]_vars

\* the merge of a reading at the threshold failed: error answered, valve not
\* opened, nothing pending
C16_Witness ==
    \E i \in ReqIds :
        /\ reqs[i].kind = "data" /\ reqs[i].status = 500
        /\ Soil(i) <= Threshold(i)
        /\ reqs[i].quiet /\ LastOn(i)
        /\ queue = <<>>
        /\ db[SectionOf(i)] = reqs[i].pre
        /\ events = <<>>

----------------------------------------------------------------------------
(* C17 *)

\* C17: when the automatic "on" write of an ingest fails in the store, the
\* ingest does not answer with success.
C17_AutoOnFailureFailsIngest ==
    [][ FailStep("autoOn") => reqs'[Head(queue).req].status # 200 ]_vars

----------------------------------------------------------------------------
(* C18 *)

\* C18: a failure of the deferred read or of the "off" write that follows it
\* does not fail the ingest: its success answer stands, its sensor-update was
\* emitted, the store (merged telemetry, valve) is as before the failure and
\* nothing more is issued.
C18_AutoCloseFailureSwallowed ==
    [][ FailStep("autoRead") \/ FailStep("autoOff")
        => /\ reqs'[Head(queue).req].status = 200
           /\ \A i \in ReqIds : reqs'[i].status = reqs[i].status
           /\ EventsOf(events', Head(queue).req, "sensor-update") # {}
           /\ db' = db
           /\ SameField(db'[Head(queue).path],
                        reqs[Head(queue).req].body, "humedad_suelo")
              \/ ~LastOn(Head(queue).req)
           /\ queue' = Tail(queue) ]_vars

\* the "off" write of a reading above the margin failed: the valve is still
\* "on", the reading is stored, the ingest had answered 200
C18_Witness ==
    \E i \in ReqIds :
        /\ IsSettledReading(i)
        /\ reqs[i].decision = "off"
        /\ Get(db[SectionOf(i)], "valvula") = "on"
        /\ SameField(db[SectionOf(i)], reqs[i].body, "humedad_suelo")
        /\ EventsOf(events, i, "sensor-update") # {}

----------------------------------------------------------------------------
(* C19 *)

\* the continuations of the two automatic valve writes
ValveWrites == {"autoOn", "autoOff"}

\* C19: when the sensor-update of an ingest has been emitted, the valve action
\* decided for the reading is in the store: no valve write of that ingest is
\* still to be served.
C19_PublishAfterValveWrite ==
    \A k \in 1..Len(events) :
        events[k].topic = "sensor-update"
        => \A q \in 1..Len(queue) :
               queue[q].req = events[k].req => queue[q].cont \notin ValveWrites

----------------------------------------------------------------------------
(* C20 *)

----------------------------------------------------------------------------
(* C21 *)

\* the page shows for zone z the valvula that is stored for it
Fresh(z) == Has(db[z], "valvula") => shown[z] = db[z]["valvula"]

\* C21: a connected dashboard does not keep a stale valve: whatever changed
\* the stored valvula of a zone (manual apply, automatic open, automatic
\* close), once no more requests arrive the page comes to show the stored
\* valvula of every zone and keeps showing it.
C21_ViewerEventuallyFresh == <>[](\A z \in Zones : Fresh(z))

----------------------------------------------------------------------------
(* C22 *)

\* request i is the only one that went to the database for its section
OnlyOn(i) ==
    \A j \in 1..Len(reqs) :
        j # i /\ Accepted(j) => SectionOf(j) # SectionOf(i)

\* a section ends as its own requests leave it: addressed by one request
\* only, as that request leaves it when it runs by itself; addressed by
\* requests that did not overlap each other, as running them one after the
\* other leaves it
OwnOutcome ==
    /\ \A i \in ReqIds :
          ( /\ Accepted(i) /\ OnlyOn(i)
            /\ reqs[i].status = 200 /\ Finished(i) )
          => db[SectionOf(i)] = RunRequest(EmptyObject, reqs[i])
    /\ \A a \in ReqIds, b \in ReqIds :
          ( /\ NextAndLastOn(a, b)
            /\ reqs[a].quiet /\ reqs[b].quiet
            /\ reqs[a].status = 200 /\ reqs[b].status = 200
            /\ Finished(a) /\ Finished(b) )
          => db[SectionOf(a)] =
                 RunRequest(RunRequest(reqs[a].pre, reqs[a]), reqs[b])

\* C22: operations on different zones are independent.  A step changes the
\* stored object of one section at most, the section of the request whose
\* database call it serves; and a section ends as its own requests leave
\* it, however the database calls of requests on other sections were
\* interleaved with theirs.
C22_ZonesIndependent ==
    [][ /\ \A p \in Paths :
              db'[p] # db[p]
              => /\ queue # <<>>
                 /\ p = Head(queue).path
                 /\ p = SectionOf(Head(queue).req)
        /\ OwnOutcome' ]_vars

\* an ingest on one zone has been merged and its valve write is pending while
\* a request on another zone waits for the database
C22_Witness ==
    \E i \in ReqIds, j \in ReqIds :
        /\ IsIngest(i) /\ Accepted(j)
        /\ SectionOf(i) \in Zones /\ SectionOf(j) \in Zones
        /\ SectionOf(i) # SectionOf(j)
        /\ \E k \in 1..Len(queue), l \in 1..Len(queue) :
              /\ k < l
              /\ queue[k].req = j /\ queue[k].path = SectionOf(j)
              /\ queue[l].req = i /\ queue[l].cont \in ValveWrites
        /\ Has(db[SectionOf(i)], "humedad_suelo")
        /\ db[SectionOf(j)] = EmptyObject

----------------------------------------------------------------------------
(* C23 *)

\* this step receives a GET /api/valve/:section
ValveArrives ==
    /\ Len(reqs') = Len(reqs) + 1
    /\ reqs'[Len(reqs')].kind = "valve"

\* this step answers a GET /api/valve/:section
ValveAnswered ==
    /\ queue # <<>>
    /\ Head(queue).cont = "valve"
    /\ reqs'[Head(queue).req].status # 0

\* C23: the point query of a configured zone answers with the stored object
\* of the zone and with its valvula, "off" when nothing or no valvula is
\* stored; the query of a section that is not configured is rejected; no
\* query changes the store.
C23_PointQuery ==
    [][ /\ ValveArrives
           => /\ UNCHANGED <<db, events>>
              /\ reqs'[Len(reqs')].body["section"] \notin Zones
                 => /\ reqs'[Len(reqs')].status = 400
                    /\ UNCHANGED queue
        /\ ValveAnswered
           => LET i == Head(queue).req
                  z == Head(queue).path
              IN  /\ UNCHANGED <<db, events>>
                  /\ reqs'[i].status = 200
                  /\ reqs'[i].response["data"] = db[z]
                  /\ reqs'[i].response["valvula"] =
                         IF Has(db[z], "valvula") THEN db[z]["valvula"]
                         ELSE "off" ]_vars

----------------------------------------------------------------------------
(* C24 *)

\* an ingest of a configured zone that was answered with success
IsZoneAnswer(i) == IsIngest(i) /\ SectionOf(i) \in Zones

\* C24: the suggestions of an ingest are, in this order: one soil text, the
\* "low" one iff humedad_suelo <= soilThreshold and the "adequate" one
\* otherwise; the high-temperature text iff temp >= tempHigh; the
\* low-temperature text iff temp <= tempLow.
C24_AdvisoriesInOrder ==
    \A i \in ReqIds :
        IsZoneAnswer(i)
        => LET b   == reqs[i].body
               cfg == SECTIONS[SectionOf(i)]
           IN  reqs[i].suggestions =
                   <<IF Has(b, "humedad_suelo")
                        /\ b["humedad_suelo"] <= cfg.soilThreshold
                     THEN MsgSoilLow ELSE MsgSoilOk>>
                   \o (IF Has(b, "temp") /\ b["temp"] >= cfg.tempHigh
                       THEN <<MsgTempHigh>> ELSE <<>>)
                   \o (IF Has(b, "temp") /\ b["temp"] <= cfg.tempLow
                       THEN <<MsgTempLow>> ELSE <<>>)

\* one reading exactly at tempHigh got the high-temperature text after the
\* "adequate" text, another exactly at tempLow got the low-temperature text
\* after the "low" text
C24_Witness ==
    \E i \in ReqIds, j \in ReqIds :
        /\ IsZoneAnswer(i) /\ IsZoneAnswer(j)
        /\ Has(reqs[i].body, "temp") /\ Has(reqs[j].body, "temp")
        /\ reqs[i].body["temp"] = SECTIONS[SectionOf(i)].tempHigh
        /\ reqs[i].suggestions = <<MsgSoilOk, MsgTempHigh>>
        /\ reqs[j].body["temp"] = SECTIONS[SectionOf(j)].tempLow
        /\ reqs[j].suggestions = <<MsgSoilLow, MsgTempLow>>

----------------------------------------------------------------------------
(* C25 *)

\* an ingest of sensor fields only on a configured zone, run alone and
\* finished
IsLoneReading(i) ==
    /\ IsZoneAnswer(i)
    /\ SensorOnly(reqs[i].body)
    /\ Alone(i)
    /\ Finished(i)

\* C25: the valve outcome of an ingest does not depend on the temperature
\* (nor on ambient humidity or light): the stored valvula, manual_override
\* and reason after it are those that any other reading of the zone with the
\* same humedad_suelo leaves from the same stored state.
C25_ValveIgnoresTemperature ==
    \A i \in ReqIds :
        IsLoneReading(i)
        => \A other \in PolicyBodies :
               ( /\ other["section"] = SectionOf(i)
                 /\ SameField(other, reqs[i].body, "humedad_suelo") )
               => \A f \in ControlFieldNames :
                      SameField(db[SectionOf(i)],
                                RunData(reqs[i].pre, other), f)

\* a reading above the margin taken at tempHigh has closed a valve that was
\* open without manual override
C25_Witness ==
    \E i \in ReqIds :
        /\ IsLoneReading(i)
        /\ Has(reqs[i].body, "temp")
        /\ reqs[i].body["temp"] = SECTIONS[SectionOf(i)].tempHigh
        /\ MsgTempHigh = reqs[i].suggestions[Len(reqs[i].suggestions)]
        /\ Get(reqs[i].pre, "valvula") = "on"
        /\ ~ManualOverride(reqs[i].pre)
        /\ Get(db[SectionOf(i)], "valvula") = "off"

----------------------------------------------------------------------------
(* C26 *)

\* C26: an ingest without humedad_suelo takes no valve action: no valve
\* write is issued for it and, run alone, it leaves valvula, manual_override
\* and reason as they were; an ingest without temp gets no temperature text;
\* both are answered with success.
C26_MissingFieldsNoAction ==
    \A i \in ReqIds :
        ( /\ reqs[i].kind = "data" /\ Accepted(i)
          /\ SectionOf(i) \in Zones )
        => /\ ~Has(reqs[i].body, "humedad_suelo")
              => /\ reqs[i].status \in {0, 200}
                 /\ reqs[i].decision \notin {"on", "off"}
                 /\ \A k \in 1..Len(queue) :
                        queue[k].req = i => queue[k].cont \notin ValveWrites
                 /\ IsLoneReading(i)
                    => \A f \in ControlFieldNames :
                           SameField(db[SectionOf(i)], reqs[i].pre, f)
           /\ ~Has(reqs[i].body, "temp")
              => /\ reqs[i].status \in {0, 200}
                 /\ \A k \in 1..Len(reqs[i].suggestions) :
                        reqs[i].suggestions[k] \notin {MsgTempHigh, MsgTempLow}

\* a reading with neither humedad_suelo nor temp was answered with success
\* and left open a valve that the automatic logic had opened
C26_Witness ==
    \E i \in ReqIds :
        /\ IsLoneReading(i)
        /\ ~Has(reqs[i].body, "humedad_suelo")
        /\ ~Has(reqs[i].body, "temp")
        /\ reqs[i].suggestions = <<MsgSoilOk>>
        /\ Get(reqs[i].pre, "valvula") = "on"
        /\ ~ManualOverride(reqs[i].pre)
        /\ Get(db[SectionOf(i)], "valvula") = "on"

----------------------------------------------------------------------------
(* C27 *)

\* this step receives a POST /api/data
IngestArrives ==
    /\ Len(reqs') = Len(reqs) + 1
    /\ reqs'[Len(reqs')].kind = "data"

\* the key a request carried is the key configured on the server
KeyMatches(cred, key) == cred # Undefined /\ key # Undefined /\ cred = key

\* C27: a POST /api/data without the API key, or with a key that is not the
\* configured one, is answered 401 before its body is read: nothing is
\* written, queued or emitted for it.  With no API key configured every
\* POST /api/data is rejected.  Every merge and every sensor-update belongs
\* to a request that carried the configured key.
C27_IngestNeedsApiKey ==
    [][ /\ ( IngestArrives
             /\ ~KeyMatches(reqs'[Len(reqs')].cred, API_KEY) )
           => /\ reqs'[Len(reqs')].status = 401
              /\ reqs'[Len(reqs')].body = EmptyObject
              /\ UNCHANGED <<db, queue, events>>
        /\ IngestArrives /\ API_KEY = Undefined
           => reqs'[Len(reqs')].status = 401
        /\ \A k \in 1..Len(queue') :
              queue'[k].cont = "data"
              => KeyMatches(reqs'[queue'[k].req].cred, API_KEY)
        /\ \A k \in 1..Len(events') :
              events'[k].topic = "sensor-update"
              => KeyMatches(reqs'[events'[k].req].cred, API_KEY) ]_vars

\* on a server without a configured key, a request without key and a request
\* with a key were both turned away and nothing is stored, queued or emitted
C27_Witness ==
    \E i \in ReqIds, j \in ReqIds :
        /\ API_KEY = Undefined
        /\ reqs[i].kind = "data" /\ reqs[i].status = 401
        /\ reqs[i].cred = Undefined
        /\ reqs[j].kind = "data" /\ reqs[j].status = 401
        /\ reqs[j].cred = ValidKey
        /\ StoredSections = {}
        /\ queue = <<>> /\ events = <<>>

----------------------------------------------------------------------------
(* C28 *)

\* C28: the ultima_actualizacion that an ingest stores is the timestamp the
\* server took when it handled the request; a timestamp that the device put
\* into its payload is never stored as ultima_actualizacion.
C28_ServerTimestamp ==
    [][ /\ MergeStep
           => Get(db'[Head(queue).path], TimestampField) = ServerTime
        /\ \A p \in Paths :
              Get(db'[p], TimestampField) # DeviceTime ]_vars

\* a payload that carried a timestamp of the device has been merged, and the
\* zone holds the timestamp of the server
C28_Witness ==
    \E i \in ReqIds :
        /\ IsZoneAnswer(i)
        /\ Get(reqs[i].body, TimestampField) = DeviceTime
        /\ LastOn(i)
        /\ Has(db[SectionOf(i)], "section")
        /\ Get(db[SectionOf(i)], TimestampField) = ServerTime

----------------------------------------------------------------------------
(* C29 *)

\* an accepted ingest of sensor fields whose humedad_suelo lies in
\* (soilThreshold, soilThreshold + 50]
InBand(i) ==
    /\ reqs[i].kind = "data" /\ Accepted(i)
    /\ SectionOf(i) \in Zones
    /\ SensorOnly(reqs[i].body)
    /\ Has(reqs[i].body, "humedad_suelo")
    /\ Soil(i) > Threshold(i)
    /\ Soil(i) <= Threshold(i) + 50

\* from request k on, every request on k's zone is an ingest in the band, and
\* nothing was in progress on the zone when k arrived
BandRunFrom(k) ==
    /\ InBand(k)
    /\ reqs[k].quiet
    /\ \A j \in ReqIds :
          j > k /\ Accepted(j) /\ SectionOf(j) = SectionOf(k) => InBand(j)

\* C29: no flapping inside the hysteresis band: from a zone with nothing in
\* flight, while only ingests with humedad_suelo in
\* (soilThreshold, soilThreshold + 50] arrive for it, overlapping or not, and
\* no manual apply, the stored valvula stays what it was when the first of
\* them arrived.
C29_NoFlappingInBand ==
    \A k \in ReqIds :
        BandRunFrom(k)
        => SameField(db[SectionOf(k)], reqs[k].pre, "valvula")

\* an automatically opened valve is still open after two overlapping
\* readings, one at each end of the band
C29_Witness ==
    \E k \in ReqIds, j \in ReqIds :
        /\ BandRunFrom(k) /\ InBand(j)
        /\ k < j /\ SectionOf(j) = SectionOf(k)
        /\ ~reqs[j].quiet
        /\ Soil(k) = Threshold(k) + 50 /\ Soil(j) = Threshold(j) + 1
        /\ Finished(k) /\ Finished(j)
        /\ Get(reqs[k].pre, "valvula") = "on"
        /\ ~ManualOverride(reqs[k].pre)
        /\ Get(db[SectionOf(k)], "valvula") = "on"

----------------------------------------------------------------------------
(* C30 *)

\* C30: two ingests A then B on a zone whose valvula is "on" without manual
\* override and with nothing else in flight, A with soil > soilThreshold + 50
\* and B with soil <= soilThreshold, overlapping or not: once all their
\* database calls are served the stored valvula is "on" (the close decided
\* for A does not land after the open of B).
C30_LaterReadingWins ==
    \A a \in ReqIds, b \in ReqIds :
        ( /\ NextAndLastOn(a, b)
          /\ IsZoneIngest(a) /\ IsZoneIngest(b)
          /\ reqs[a].quiet
          /\ Get(reqs[a].pre, "valvula") = "on"
          /\ ~ManualOverride(reqs[a].pre)
          /\ Soil(a) > Threshold(a) + HysteresisMargin
          /\ Soil(b) <= Threshold(b)
          /\ Finished(a) /\ Finished(b) )
        => Get(db[SectionOf(a)], "valvula") = "on"

----------------------------------------------------------------------------
(* C31 *)

\* C31: once a manual apply has been written over a zone, the automatic
\* close stays disabled for it: no write, automatic or manual, stores
\* manual_override false, a stored manual_override true stays true, and an
\* ingest of sensor fields that arrives after the apply never decides "off".
C31_OverrideNeverCleared ==
    [][ /\ \A k \in 1..Len(queue') :
              Has(queue'[k].fields, "manual_override")
              => queue'[k].fields["manual_override"] = TRUE
        /\ \A p \in Paths :
              ManualOverride(db[p]) => ManualOverride(db'[p])
        /\ \A i \in 1..Len(reqs') :
              ( /\ reqs'[i].kind = "data"
                /\ SensorOnly(reqs'[i].body)
                /\ ManualOverride(reqs'[i].pre) )
              => /\ reqs'[i].decision # "off"
                 /\ \A k \in 1..Len(queue') :
                        queue'[k].req = i => queue'[k].cont # "autoOff" ]_vars

\* a valve closed by hand, then opened by a reading at the threshold, is
\* still open after a reading above the margin: manual_override is still
\* true
C31_Witness ==
    \E a \in ReqIds, i \in ReqIds, j \in ReqIds :
        /\ a < i /\ i < j
        /\ IsApply(a) /\ reqs[a].body["action"] = "off"
        /\ IsZoneIngest(i) /\ Soil(i) <= Threshold(i)
        /\ IsSettledReading(j) /\ Soil(j) > Threshold(j) + HysteresisMargin
        /\ Get(reqs[j].pre, "valvula") = "on"
        /\ Get(reqs[j].pre, "reason") = "auto_soil_low"
        /\ reqs[j].decision = "none"
        /\ Get(db[SectionOf(j)], "valvula") = "on"
        /\ ManualOverride(db[SectionOf(j)])

----------------------------------------------------------------------------
(* C32 *)

\* request i came in on /api/control and request j on /api/ui/control, both
\* were let in and accepted, and they ask the same action of the same section
SameApply(i, j) ==
    /\ reqs[i].kind = "control" /\ reqs[j].kind = "ui-control"
    /\ Accepted(i) /\ Accepted(j)
    /\ reqs[i].body = reqs[j].body

----------------------------------------------------------------------------
(* C33 *)

\* the response of the last login request carries a token
TokenIssued == Has(loginReply.response, "token")

\* the submitted password passes the check the environment configures: the
\* hash was made from it, or, without a hash, it is the plain password
PasswordVerifies ==
    LET password == Get(loginReply.body, "password")
    IN  IF ~Falsy(env.ADMIN_PASSWORD_HASH)
        THEN <<password, env.ADMIN_PASSWORD_HASH>> \in BcryptPairs
        ELSE /\ ~Falsy(env.ADMIN_PLAIN_PASSWORD)
             /\ password = env.ADMIN_PLAIN_PASSWORD

\* C33: a login request is answered with a token only if its email is the
\* configured admin email and its password verifies against the configured
\* hash or, when no hash is configured, equals the configured plain
\* password; without an admin email, or with neither a hash nor a plain
\* password, no request is answered with a token.
C33_TokenOnlyForAdmin ==
    TokenIssued =>
        /\ ~Falsy(env.ADMIN_EMAIL)
        /\ Get(loginReply.body, "email") = env.ADMIN_EMAIL
        /\ ~Falsy(env.ADMIN_PASSWORD_HASH) \/ ~Falsy(env.ADMIN_PLAIN_PASSWORD)
        /\ PasswordVerifies

\* a token was issued for the password of the hash in an environment that
\* also sets a plain password
C33_Witness ==
    /\ TokenIssued
    /\ loginReply.status = 200
    /\ loginReply.response["token"] \in SignedTokens
    /\ env.ADMIN_PASSWORD_HASH = AdminHash
    /\ env.ADMIN_PLAIN_PASSWORD = DevPassword
    /\ loginReply.body["password"] = AdminPassword

----------------------------------------------------------------------------
(* C34 *)

\* a step in which a login attempt ends without a redirect: doLogin returns
\* for missing input, or one of the pending fetches is settled and the page
\* stays
AttemptEndsOnPage ==
    /\ location' = location
    /\ \/ Len(fetches') < Len(fetches)
       \/ /\ fetches' = fetches
          /\ loginReply' = loginReply
          /\ loginHits' = loginHits

\* C34: on the login page at most one login request is in flight at any
\* time, and after every attempt that does not end in a redirect the login
\* button is enabled again.
C34_OneLoginInFlight ==
    /\ [](Len(fetches) <= 1)
    /\ [][AttemptEndsOnPage => btnDisabled' = FALSE]_vars

----------------------------------------------------------------------------
(* C35 *)

\* C35: whatever the storage holds under the two token keys, and whichever
\* page the browser starts on, the redirects between the login page and the
\* protected pages end: from some point on the browser stays on a page
\* whose scripts have run without a redirect.
C35_GuardSettles == <>[]loaded

\* the browser went from the login page to the dashboard and back, and
\* stays on the login page with the token removed
C35_Witness ==
    /\ loaded
    /\ redirects = 2
    /\ location = "login.html"
    /\ ~Has(localStorage, "vivero_token")

----------------------------------------------------------------------------
(* C36 *)

\* a chart holds at most thirty points and its arrays have one length
SoilChartOk(c) ==
    /\ c.soilLabels <= 30
    /\ c.soilData = c.soilLabels

TempChartOk(c) ==
    /\ c.tempLabels <= 30
    /\ c.tempData = c.tempLabels
    /\ c.humData = c.tempLabels

\* C36: in the section detail view, after any sequence of refreshes with
\* the soil and temperature fields each present or absent, the soil chart
\* and the temperature chart each hold at most 30 points, and in each chart
\* the labels and every data series have the same length.
C36_ChartsBounded ==
    /\ SoilChartOk(uiCharts)
    /\ TempChartOk(uiCharts)
    /\ SoilChartOk(appCharts)
    /\ TempChartOk(appCharts)

====
